---- MODULE Spec2Model ----
(***************************************************************************)
(* Model of the keyword-deck tools: the extraction tool (src/s1.py), the   *)
(* all-pairs thickness comparator (src/ss1.py) and the similarity engine   *)
(* (src/similarity.py).                                                    *)
(*                                                                         *)
(* Text is modelled as it is in the program: a file is the list of lines   *)
(* that readlines() returns, every line a sequence of one-character        *)
(* strings that still carries its line terminator; only the last line of   *)
(* a file may be unterminated.  strip, startswith, re.split and safe_int   *)
(* are computed on those characters.                                       *)
(*                                                                         *)
(* Each tool is a program of its own and has its own specification: Spec,  *)
(* SpecOrder and SpecBatch (s1.py: one file, one file of few blocks, the   *)
(* loop of main), SpecParse and SpecDiff (ss1.py), SpecSim                 *)
(* (similarity.py).  The variables of the other tools keep their idle      *)
(* values in it.  SpecBoth runs the extraction of s1.py and the parser of  *)
(* ss1.py on the same file.                                                *)
(***************************************************************************)
EXTENDS Integers, Sequences, FiniteSets, TLC

VARIABLES
    input_file,     \* base name of the file being processed
    lines,          \* readlines() of the input file
    keep_pids,      \* set built by PASS 1
    keep_sec_ids,   \* set built by PASS 1
    keep_mat_ids,   \* set built by PASS 1
    keep_node_ids,  \* set built by PASS 2
    emitted,        \* indices of the input lines PASS 3 wrote, in write order
    out,            \* readlines() of the output file (<<>> when none was written)
    pc,             \* position of the running tool
    run,            \* 1 for the source deck, 2 when the output is fed back in
    file_list,      \* main: files = sorted(glob(...)), as base names
    next_file,      \* main: index in file_list of the file the loop takes next
    input_dir,      \* INPUT_DIR: base name -> readlines() of that file
    output_dir,     \* OUTPUT_DIR: base name -> readlines() of that file
    log             \* the outcome printed for each call, in order

\* ss1.py
VARIABLES
    data,           \* what parse_deep_search returned for `lines`
    all_files,      \* sorted(glob(...)): the paths of the design files
    deck_of,        \* path -> readlines() of that file
    results,        \* dict(p.map(worker, all_files)), filled as workers return
    compared,       \* number of file combinations the loop has gone through
    reports,        \* the pairwise reports saved so far, in order
    diff_count      \* number of pairs in which a change was detected

\* similarity.py
VARIABLES
    ref_kf,         \* KeyFile object of the reference file
    ref_data,       \* engine.ref_data
    ref_keywords,   \* engine.ref_keywords
    target,         \* KeyFile object of the target of the last calculate_score
    locals,         \* struct_score, param_score and counters of that call
    score,          \* what that call returned, in hundredths of a percent
    error_logged    \* a target of the batch failed to parse before this one

extract_vars == <<input_file, lines, keep_pids, keep_sec_ids, keep_mat_ids,
                  keep_node_ids, emitted, out, run, file_list, next_file,
                  input_dir, output_dir, log>>

diff_vars == <<data, all_files, deck_of, results, compared, reports, diff_count>>

sim_vars == <<ref_kf, ref_data, ref_keywords, target, locals, score,
              error_logged>>

vars == <<extract_vars, diff_vars, sim_vars, pc>>

(***************************************************************************)
(* Idle values: the state of a tool that is not the one running.           *)
(***************************************************************************)
\* what worker returns when parse_deep_search raised: (fpath, None)
NoResult == [some |-> FALSE, parts |-> <<>>, sections |-> <<>>]

\* the locals of calculate_score before any call
NoLocals ==
    [raised |-> FALSE, intersection |-> {}, union |-> {},
     struct_score |-> [num |-> 0, den |-> 1], total_fields |-> 0,
     matching_fields |-> 0, param_score |-> [num |-> 0, den |-> 1]]

ExtractIdle ==
    /\ input_file = <<>>
    /\ keep_pids = {}
    /\ keep_sec_ids = {}
    /\ keep_mat_ids = {}
    /\ keep_node_ids = {}
    /\ emitted = <<>>
    /\ out = <<>>
    /\ run = 1
    /\ file_list = <<>>
    /\ next_file = 1
    /\ input_dir = <<>>
    /\ output_dir = <<>>
    /\ log = <<>>

BatchIdle ==
    /\ all_files = <<>>
    /\ deck_of = <<>>
    /\ results = <<>>
    /\ compared = 0
    /\ reports = <<>>
    /\ diff_count = 0

SimIdle ==
    /\ ref_kf = <<>>
    /\ ref_data = <<>>
    /\ ref_keywords = {}
    /\ target = <<>>
    /\ locals = NoLocals
    /\ score = 0
    /\ error_logged = FALSE

(***************************************************************************)
(* Bounds of the model.                                                    *)
(***************************************************************************)
MaxChunks == 3
MaxRuns == 2

(***************************************************************************)
(* Characters and string helpers.                                          *)
(***************************************************************************)
NL == "\n"

\* the characters str.strip() removes
Whitespace == {" ", "\t", "\r", NL}

\* the separators of the pattern [,\s]+
Separators == Whitespace \cup {","}

Digits == {"0", "1", "2", "3", "4", "5", "6", "7", "8", "9"}

DigitVal ==
    ("0" :> 0) @@ ("1" :> 1) @@ ("2" :> 2) @@ ("3" :> 3) @@ ("4" :> 4) @@
    ("5" :> 5) @@ ("6" :> 6) @@ ("7" :> 7) @@ ("8" :> 8) @@ ("9" :> 9)

\* index of the first character at or after k that is not whitespace
RECURSIVE first_black(_, _)
first_black(s, k) ==
    IF k > Len(s) \/ s[k] \notin Whitespace THEN k ELSE first_black(s, k + 1)

\* index of the last character at or before k that is not whitespace
RECURSIVE last_black(_, _)
last_black(s, k) ==
    IF k < 1 \/ s[k] \notin Whitespace THEN k ELSE last_black(s, k - 1)

\* str.strip()
strip(s) == SubSeq(s, first_black(s, 1), last_black(s, Len(s)))

\* str.startswith(prefix)
startswith(s, prefix) ==
    /\ Len(s) >= Len(prefix)
    /\ SubSeq(s, 1, Len(prefix)) = prefix

\* str.startswith(tuple of prefixes)
startswith_any(s, prefixes) ==
    \E k \in DOMAIN prefixes : startswith(s, prefixes[k])

\* re.split(r'[,\s]+', s), scanning from character k with the token `cur`
\* open; insep says the previous character was a separator
RECURSIVE re_split(_, _, _, _)
re_split(s, k, cur, insep) ==
    IF k > Len(s) THEN <<cur>>
    ELSE IF s[k] \in Separators
         THEN IF insep THEN re_split(s, k + 1, cur, TRUE)
              ELSE <<cur>> \o re_split(s, k + 1, <<>>, TRUE)
         ELSE re_split(s, k + 1, Append(cur, s[k]), FALSE)

tokenize(s) == re_split(s, 1, <<>>, FALSE)

\* d[k] = v on a dict
put(d, k, v) == [x \in DOMAIN d \cup {k} |-> IF x = k THEN v ELSE d[x]]

(***************************************************************************)
(* safe_int.  An absent result (None) is [some |-> FALSE].                 *)
(***************************************************************************)
None == [some |-> FALSE, val |-> 0]

Some(n) == [some |-> TRUE, val |-> n]

\* str.isdigit()
isdigit(s) == s /= <<>> /\ \A k \in DOMAIN s : s[k] \in Digits

\* int() of a string of digits ("" counts 0, used for the empty side of a point)
RECURSIVE int_of(_)
int_of(s) ==
    IF s = <<>> THEN 0
    ELSE 10 * int_of(SubSeq(s, 1, Len(s) - 1)) + DigitVal[s[Len(s)]]

\* float(s) followed by is_integer() and int(): decimal literals made of an
\* optional sign, digits and at most one point.  (Exponents, inf and nan are
\* outside the token alphabet of the model.)
float_int(s) ==
    LET signed == s /= <<>> /\ s[1] \in {"+", "-"}
        body   == IF signed THEN SubSeq(s, 2, Len(s)) ELSE s
        points == {k \in DOMAIN body : body[k] = "."}
        whole  == IF points = {} THEN body
                  ELSE SubSeq(body, 1, (CHOOSE k \in points : TRUE) - 1)
        frac   == IF points = {} THEN <<>>
                  ELSE SubSeq(body, (CHOOSE k \in points : TRUE) + 1, Len(body))
        wellformed ==
            /\ Cardinality(points) <= 1
            /\ \A k \in DOMAIN body : body[k] \in Digits \cup {"."}
            /\ Len(whole) + Len(frac) >= 1
        is_integer == \A k \in DOMAIN frac : frac[k] = "0"
        magnitude  == int_of(whole)
    IN  IF wellformed /\ is_integer
        THEN Some(IF signed /\ s[1] = "-" THEN 0 - magnitude ELSE magnitude)
        ELSE None

safe_int(value) ==
    LET s == strip(value)
    IN  IF isdigit(s) THEN Some(int_of(s)) ELSE float_int(s)

is_odd(n) == n % 2 /= 0

(***************************************************************************)
(* Keywords the tool recognises, as character sequences.                   *)
(***************************************************************************)
Star == <<"*">>

Dollar == <<"$">>

kwPART == <<"*", "P", "A", "R", "T">>

kwNODE == <<"*", "N", "O", "D", "E">>

kwELEMENT_SHELL ==
    <<"*", "E", "L", "E", "M", "E", "N", "T", "_", "S", "H", "E", "L", "L">>

kwELEMENT_SOLID ==
    <<"*", "E", "L", "E", "M", "E", "N", "T", "_", "S", "O", "L", "I", "D">>

kwELEMENT_BEAM ==
    <<"*", "E", "L", "E", "M", "E", "N", "T", "_", "B", "E", "A", "M">>

kwELEMENT_TSHELL ==
    <<"*", "E", "L", "E", "M", "E", "N", "T", "_", "T", "S", "H", "E", "L", "L">>

kwELEMENT_DISCRETE ==
    <<"*", "E", "L", "E", "M", "E", "N", "T", "_", "D", "I", "S", "C", "R", "E", "T", "E">>

kwELEMENT_MASS ==
    <<"*", "E", "L", "E", "M", "E", "N", "T", "_", "M", "A", "S", "S">>

kwSECTION_SHELL ==
    <<"*", "S", "E", "C", "T", "I", "O", "N", "_", "S", "H", "E", "L", "L">>

kwSECTION_BEAM ==
    <<"*", "S", "E", "C", "T", "I", "O", "N", "_", "B", "E", "A", "M">>

kwSECTION_SOLID ==
    <<"*", "S", "E", "C", "T", "I", "O", "N", "_", "S", "O", "L", "I", "D">>

kwSECTION_DISCRETE ==
    <<"*", "S", "E", "C", "T", "I", "O", "N", "_", "D", "I", "S", "C", "R", "E", "T", "E">>

kwMAT == <<"*", "M", "A", "T", "_">>

element_keywords ==
    <<kwELEMENT_SHELL, kwELEMENT_SOLID, kwELEMENT_BEAM,
      kwELEMENT_TSHELL, kwELEMENT_DISCRETE, kwELEMENT_MASS>>

section_keywords ==
    <<kwSECTION_SHELL, kwSECTION_BEAM, kwSECTION_SOLID, kwSECTION_DISCRETE>>

(***************************************************************************)
(* Line classification shared by the three passes.                         *)
(***************************************************************************)
\* look.startswith('*')
is_header(line) == startswith(strip(line), Star)

\* look.startswith('$')
is_comment(line) == startswith(strip(line), Dollar)

\* where the inner `while j < n` loops stop: the first index >= j holding a
\* header line, or Len(ls) + 1 at the end of the file
RECURSIVE block_end(_, _)
block_end(ls, j) ==
    IF j > Len(ls) \/ is_header(ls[j]) THEN j ELSE block_end(ls, j + 1)

\* the indices of S in ascending order: the order in which a loop over
\* increasing j meets them
RECURSIVE ascending(_)
ascending(S) ==
    IF S = {} THEN <<>>
    ELSE LET lo == CHOOSE k \in S : \A m \in S : k <= m
         IN  <<lo>> \o ascending(S \ {lo})

\* tokens[k] of the program (0-based) converted by safe_int, None when absent
token_int(tokens, k) ==
    IF k + 1 <= Len(tokens) THEN safe_int(tokens[k + 1]) ELSE None

(***************************************************************************)
(* PASS 1: odd Part ids and the Section / Material ids of those Parts.     *)
(***************************************************************************)
\* range(1, 5) stops before this offset
lookahead_stop == 5

\* variant: the lookahead goes on to the first data line however far it is
RECURSIVE part_lookahead_unbounded(_, _, _)
part_lookahead_unbounded(ls, i, offset) ==
    IF i + offset > Len(ls) THEN <<>>
    ELSE IF is_header(ls[i + offset]) THEN <<>>
    ELSE IF is_comment(ls[i + offset])
    THEN part_lookahead_unbounded(ls, i, offset + 1)
    ELSE tokenize(strip(ls[i + offset]))

\* tokens of the line the lookahead settles on, <<>> when it finds none
RECURSIVE part_lookahead(_, _, _)
part_lookahead(ls, i, offset) ==
    IF offset >= lookahead_stop \/ i + offset > Len(ls) THEN <<>>
    ELSE IF is_header(ls[i + offset]) THEN <<>>
    ELSE IF is_comment(ls[i + offset]) THEN part_lookahead(ls, i, offset + 1)
    ELSE tokenize(strip(ls[i + offset]))

\* what the *PART header at line i adds to the three sets: the ids its data
\* line gives, all None unless the Part id is odd
part_ids(ls, i) ==
    LET tokens == part_lookahead(ls, i, 1)
        pid    == token_int(tokens, 0)
    IN  IF Len(tokens) >= 1 /\ pid.some /\ is_odd(pid.val)
        THEN [pid |-> pid, sid |-> token_int(tokens, 1), mid |-> token_int(tokens, 2)]
        ELSE [pid |-> None, sid |-> None, mid |-> None]

\* the values of the ids that are not None
values(ids) == {id.val : id \in {x \in ids : x.some}}

\* variant: a later definition of a Part id replaces the earlier one
pass1_last_wins(ls) ==
    LET heads == {h \in DOMAIN ls : startswith(strip(ls[h]), kwPART)}
        last  == {h \in heads :
                    \A g \in heads :
                        (g > h /\ part_ids(ls, g).pid.some)
                        => part_ids(ls, g).pid /= part_ids(ls, h).pid}
        found == {part_ids(ls, i) : i \in last}
    IN  [pids    |-> values({f.pid : f \in found}),
         sec_ids |-> values({f.sid : f \in found}),
         mat_ids |-> values({f.mid : f \in found})]

\* keep_pids, keep_sec_ids and keep_mat_ids at the end of PASS 1
pass1(ls) ==
    LET found == {part_ids(ls, i) :
                    i \in {h \in DOMAIN ls : startswith(strip(ls[h]), kwPART)}}
    IN  [pids    |-> values({f.pid : f \in found}),
         sec_ids |-> values({f.sid : f \in found}),
         mat_ids |-> values({f.mid : f \in found})]

(***************************************************************************)
(* PASS 2: Node ids referenced by the elements of the kept Parts.          *)
(***************************************************************************)
\* variant: the Node ids are taken from one token too far
start_index_late == 2 + 1

start_index == 2

\* variant: the *ELEMENT_MASS branch collects Node ids like the others
line_nodes_mass_too(el_line, pids, is_mass) ==
    LET tokens == tokenize(strip(el_line))
        pid    == token_int(tokens, 1)
    IN  IF Len(tokens) > 2 /\ pid.some /\ pid.val \in pids
        THEN {safe_int(tokens[k]).val :
                k \in {m \in (start_index + 1)..Len(tokens) : safe_int(tokens[m]).some}}
        ELSE {}

\* what one data line of an element block adds to keep_node_ids
line_nodes(el_line, pids, is_mass) ==
    LET tokens == tokenize(strip(el_line))
        pid    == token_int(tokens, 1)
    IN  IF Len(tokens) > 2 /\ pid.some /\ pid.val \in pids /\ ~is_mass
        THEN {safe_int(tokens[k]).val :
                k \in {m \in (start_index + 1)..Len(tokens) : safe_int(tokens[m]).some}}
        ELSE {}

RECURSIVE pass2(_, _, _)
pass2(ls, pids, i) ==
    IF i > Len(ls) THEN {}
    ELSE IF startswith_any(strip(ls[i]), element_keywords)
         THEN LET j == block_end(ls, i + 1)
                  is_mass == startswith(strip(ls[i]), kwELEMENT_MASS)
              IN  UNION {line_nodes(ls[k], pids, is_mass) :
                            k \in {m \in (i + 1)..(j - 1) : ~is_comment(ls[m])}}
                  \cup pass2(ls, pids, j)
         ELSE pass2(ls, pids, i + 1)

\* variant: one pass, in which an element is examined with the Part ids of
\* the *PART blocks that stand before it
pass2_node_ids_one_pass(ls, pids) ==
    UNION {LET known   == pids \cap pass1(SubSeq(ls, 1, h)).pids
               is_mass == startswith(strip(ls[h]), kwELEMENT_MASS)
           IN  UNION {line_nodes(ls[k], known, is_mass) :
                         k \in {m \in (h + 1)..(block_end(ls, h + 1) - 1) :
                                  ~is_comment(ls[m])}} :
           h \in {i \in DOMAIN ls : startswith_any(strip(ls[i]), element_keywords)}}

pass2_node_ids(ls, pids) == pass2(ls, pids, 1)

(***************************************************************************)
(* PASS 3: the input lines that are written, in order.                     *)
(***************************************************************************)
\* the set of kept ids holds the id at token k of the line
token_in(line, k, ids) ==
    LET id == token_int(tokenize(strip(line)), k)
    IN  id.some /\ id.val \in ids

\* variant: a *NODE block is copied whole
node_lines_written_all(ls, a, b, node_ids) == a..b

\* 1. lines a..b of a *NODE block that are written
node_lines_written(ls, a, b, node_ids) ==
    {k \in a..b : is_comment(ls[k]) \/ token_in(ls[k], 0, node_ids)}

\* variant: the element loop does not ask for more than two tokens
element_lines_written_any_length(ls, a, b, pids) ==
    {k \in a..b : is_comment(ls[k]) \/ token_in(ls[k], 1, pids)}

\* 2. lines a..b of a standard element block that are written
element_lines_written(ls, a, b, pids) ==
    {k \in a..b :
        \/ is_comment(ls[k])
        \/ /\ Len(tokenize(strip(ls[k]))) > 2
           /\ token_in(ls[k], 1, pids)}

\* 3. lines a..b of a *ELEMENT_MASS block that are written
mass_lines_written(ls, a, b, node_ids) ==
    {k \in a..b :
        \/ is_comment(ls[k])
        \/ /\ Len(tokenize(strip(ls[k]))) > 1
           /\ token_in(ls[k], 1, node_ids)}

\* 4. 5. 6. is_target_part / is_target_sec / is_target_mat after the loop
\* over the buffered lines a..b
is_target(ls, a, b, ids) ==
    \E k \in a..b : ~is_comment(ls[k]) /\ token_in(ls[k], 0, ids)

\* what a buffered block (header i, body up to j - 1) writes
buffer_written(ls, i, j, ids) ==
    IF is_target(ls, i + 1, j - 1, ids) THEN i..(j - 1) ELSE {}

\* the lines written for the block whose header is line i and whose body
\* ends before line j
block_written(ls, i, j, pids, sec_ids, mat_ids, node_ids) ==
    LET line_strip == strip(ls[i])
    IN  IF startswith(line_strip, kwNODE)
        THEN {i} \cup node_lines_written(ls, i + 1, j - 1, node_ids)
        ELSE IF /\ startswith_any(line_strip, element_keywords)
                /\ ~startswith(line_strip, kwELEMENT_MASS)
        THEN {i} \cup element_lines_written(ls, i + 1, j - 1, pids)
        ELSE IF startswith(line_strip, kwELEMENT_MASS)
        THEN {i} \cup mass_lines_written(ls, i + 1, j - 1, node_ids)
        ELSE IF startswith(line_strip, kwPART)
        THEN buffer_written(ls, i, j, pids)
        ELSE IF startswith_any(line_strip, section_keywords)
        THEN buffer_written(ls, i, j, sec_ids)
        ELSE IF startswith(line_strip, kwMAT)
        THEN buffer_written(ls, i, j, mat_ids)
        ELSE {}

\* a line on which the dispatch of PASS 3 opens a block loop
is_handled(line) ==
    LET line_strip == strip(line)
    IN  \/ startswith(line_strip, kwNODE)
        \/ startswith_any(line_strip, element_keywords)
        \/ startswith(line_strip, kwPART)
        \/ startswith_any(line_strip, section_keywords)
        \/ startswith(line_strip, kwMAT)

\* variant: a line outside the handled blocks is passed through
skipped_passed_through(ls, i) == <<i>>

\* what the final `else: i += 1` writes for line i: nothing
skipped(ls, i) == <<>>

\* the outer `while i < n` of PASS 3 from line i on
RECURSIVE pass3(_, _, _, _, _, _)
pass3(ls, i, pids, sec_ids, mat_ids, node_ids) ==
    IF i > Len(ls) THEN <<>>
    ELSE IF is_handled(ls[i])
         THEN LET j == block_end(ls, i + 1)
              IN  ascending(block_written(ls, i, j, pids, sec_ids, mat_ids, node_ids))
                  \o pass3(ls, j, pids, sec_ids, mat_ids, node_ids)
         ELSE skipped(ls, i) \o pass3(ls, i + 1, pids, sec_ids, mat_ids, node_ids)

(***************************************************************************)
(* The output file.                                                        *)
(***************************************************************************)
deck_open ==
    <<"*", "K", "E", "Y", "W", "O", "R", "D", NL>>

provenance_prefix ==
    <<"$", " ", "E", "x", "t", "r", "a", "c", "t", "e", "d", " ", "O", "d",
      "d", " ", "C", "o", "m", "p", "o", "n", "e", "n", "t", "s", " ",
      "f", "r", "o", "m", " ">>

visualization_note ==
    <<"$", " ", "P", "r", "o", "p", "e", "r", " ", "D", "Y", "N", "A", " ",
      "F", "i", "l", "e", " ", "f", "o", "r", " ", "V", "i", "s", "u",
      "a", "l", "i", "z", "a", "t", "i", "o", "n", NL>>

deck_close ==
    <<"*", "E", "N", "D", NL>>

\* the three lines written before the loop of PASS 3
header_lines(name) ==
    <<deck_open, provenance_prefix \o name \o <<NL>>, visualization_note>>

\* out.write(text), on a file held as the lines readlines() would return:
\* text written after an unterminated line continues that line
write(file, text) ==
    IF file /= <<>> /\ file[Len(file)][Len(file[Len(file)])] /= NL
    THEN [file EXCEPT ![Len(file)] = @ \o text]
    ELSE Append(file, text)

RECURSIVE write_all(_, _)
write_all(file, texts) ==
    IF texts = <<>> THEN file
    ELSE write_all(write(file, Head(texts)), Tail(texts))

\* the file PASS 3 leaves: header, the written input lines, footer
output_file(ls, name, written) ==
    write_all(<<>>, header_lines(name)
                    \o [k \in DOMAIN written |-> ls[written[k]]]
                    \o <<deck_close>>)

\* out_name = f"Odd_Comps_{fname}"
output_prefix ==
    <<"O", "d", "d", "_", "C", "o", "m", "p", "s", "_">>

out_name(fname) == output_prefix \o fname

(***************************************************************************)
(* Input decks.  A deck is a concatenation of at most MaxChunks of the     *)
(* chunks below, with or without a terminator on its last line; the deck   *)
(* of the odd-id scenario is added whole.                                  *)
(***************************************************************************)
\* Part 1 with Section 1 and Material 1
chunkPart1 ==
    <<<<"*", "P", "A", "R", "T", NL>>,
      <<"1", " ", "1", " ", "1", NL>>>>

\* Part 1 defined with Section 2 and Material 2
chunkPart1Again ==
    <<<<"*", "P", "A", "R", "T", NL>>,
      <<"1", " ", "2", " ", "2", NL>>>>

\* Part 2 with Section 2 and Material 2
chunkPart2 ==
    <<<<"*", "P", "A", "R", "T", NL>>,
      <<"2", " ", "2", " ", "2", NL>>>>

\* Part 2 behind a comment, followed by an inertia card that starts with 1.0
chunkPart2Inertia ==
    <<<<"*", "P", "A", "R", "T", "_", "I", "N", "E", "R", "T", "I", "A", NL>>,
      <<"$", " ", "p", "i", "d", NL>>,
      <<"2", " ", "2", " ", "2", NL>>,
      <<"1", ".", "0", " ", "0", NL>>>>

\* shell 1 of Part 1 on Nodes 5 6, shell 2 of Part 2 on Nodes 7 8, and a line of Part 1 with no Node
chunkShells ==
    <<<<"*", "E", "L", "E", "M", "E", "N", "T", "_", "S", "H", "E", "L", "L",
      NL>>,
      <<"$", " ", "e", "i", "d", NL>>,
      <<"1", " ", "1", " ", "5", " ", "6", NL>>,
      <<"2", " ", "2", " ", "7", " ", "8", NL>>,
      <<"3", " ", "1", NL>>>>

\* a discrete element of Part 1 on Node 7
chunkDiscrete ==
    <<<<"*", "E", "L", "E", "M", "E", "N", "T", "_", "D", "I", "S", "C", "R",
      "E", "T", "E", NL>>,
      <<"4", " ", "1", " ", "7", NL>>>>

\* a mass on Node 5 and a mass on Node 1 whose third token is 8
chunkMasses ==
    <<<<"*", "E", "L", "E", "M", "E", "N", "T", "_", "M", "A", "S", "S", NL>>,
      <<"5", " ", "5", " ", "0", ".", "1", NL>>,
      <<"6", " ", "1", " ", "8", NL>>>>

\* Nodes 5 to 8
chunkNodes ==
    <<<<"*", "N", "O", "D", "E", NL>>,
      <<"5", " ", "0", NL>>,
      <<"6", " ", "0", NL>>,
      <<"7", " ", "0", NL>>,
      <<"8", " ", "0", NL>>>>

\* Section 1, thickness 0.5
chunkSection1 ==
    <<<<"*", "S", "E", "C", "T", "I", "O", "N", "_", "S", "H", "E", "L", "L",
      NL>>,
      <<"1", " ", "0", NL>>,
      <<"0", ".", "5", NL>>>>

\* Section 2, thickness 1.0
chunkSection2 ==
    <<<<"*", "S", "E", "C", "T", "I", "O", "N", "_", "B", "E", "A", "M", NL>>,
      <<"2", " ", "0", NL>>,
      <<"1", ".", "0", NL>>>>

\* Material 1
chunkMat1 ==
    <<<<"*", "M", "A", "T", "_", "E", "L", "A", "S", "T", "I", "C", NL>>,
      <<"1", " ", "7", ".", "8", NL>>>>

\* Material 2, second card 1.0
chunkMat2 ==
    <<<<"*", "M", "A", "T", "_", "R", "I", "G", "I", "D", NL>>,
      <<"2", " ", "7", ".", "8", NL>>,
      <<"1", ".", "0", NL>>>>

\* deck-open marker and a title block
chunkUnknown ==
    <<<<"*", "K", "E", "Y", "W", "O", "R", "D", NL>>,
      <<"*", "T", "I", "T", "L", "E", NL>>,
      <<"x", " ", "1", NL>>>>

\* deck-close marker
chunkEnd ==
    <<<<"*", "E", "N", "D", NL>>>>

Chunks ==
    <<chunkPart1, chunkPart1Again, chunkPart2, chunkPart2Inertia,
      chunkShells, chunkDiscrete, chunkMasses, chunkNodes,
      chunkSection1, chunkSection2, chunkMat1, chunkMat2,
      chunkUnknown, chunkEnd>>

\* Parts 1 (Section 10, Material 100) and 2 (Section 20, Material 200), shell 1
\* of Part 1 on Nodes 5 6, shell 2 of Part 2 on Nodes 7 8, Nodes 5 to 8
OddIdScenario ==
    <<<<"*", "K", "E", "Y", "W", "O", "R", "D", NL>>,
      <<"*", "P", "A", "R", "T", NL>>,
      <<"1", " ", "1", "0", " ", "1", "0", "0", NL>>,
      <<"*", "P", "A", "R", "T", NL>>,
      <<"2", " ", "2", "0", " ", "2", "0", "0", NL>>,
      <<"*", "S", "E", "C", "T", "I", "O", "N", "_", "S", "H", "E", "L", "L",
      NL>>,
      <<"1", "0", " ", "0", NL>>,
      <<"*", "S", "E", "C", "T", "I", "O", "N", "_", "S", "H", "E", "L", "L",
      NL>>,
      <<"2", "0", " ", "0", NL>>,
      <<"*", "M", "A", "T", "_", "E", "L", "A", "S", "T", "I", "C", NL>>,
      <<"1", "0", "0", " ", "7", ".", "8", NL>>,
      <<"*", "M", "A", "T", "_", "E", "L", "A", "S", "T", "I", "C", NL>>,
      <<"2", "0", "0", " ", "7", ".", "8", NL>>,
      <<"*", "E", "L", "E", "M", "E", "N", "T", "_", "S", "H", "E", "L", "L",
      NL>>,
      <<"1", " ", "1", " ", "5", " ", "6", NL>>,
      <<"2", " ", "2", " ", "7", " ", "8", NL>>,
      <<"*", "N", "O", "D", "E", NL>>,
      <<"5", " ", "0", NL>>,
      <<"6", " ", "0", NL>>,
      <<"7", " ", "0", NL>>,
      <<"8", " ", "0", NL>>,
      <<"*", "E", "N", "D", NL>>>>

source_name == <<"a", ".", "d", "y", "n">>

RECURSIVE concat(_, _)
concat(choice, k) ==
    IF k > Len(choice) THEN <<>>
    ELSE Chunks[choice[k]] \o concat(choice, k + 1)

\* the same lines with the terminator of the last one removed
unterminated(ls) ==
    IF ls = <<>> THEN ls
    ELSE [ls EXCEPT ![Len(ls)] = SubSeq(@, 1, Len(@) - 1)]

ChunkChoices == UNION {[1..k -> DOMAIN Chunks] : k \in 0..MaxChunks}

\* the input decks of the model
IsDeck(ls) ==
    \/ \E c \in ChunkChoices : ls = concat(c, 1) \/ ls = unterminated(concat(c, 1))
    \/ ls = OddIdScenario

(***************************************************************************)
(* The state machine: one run of extract_odd_components per input file.    *)
(***************************************************************************)
Init ==
    /\ input_file = source_name
    /\ IsDeck(lines)
    /\ keep_pids = {}
    /\ keep_sec_ids = {}
    /\ keep_mat_ids = {}
    /\ keep_node_ids = {}
    /\ emitted = <<>>
    /\ out = <<>>
    /\ pc = "ready"
    /\ run = 1
    /\ file_list = <<>>
    /\ next_file = 1
    /\ input_dir = <<>>
    /\ output_dir = <<>>
    /\ log = <<>>
    /\ data = NoResult
    /\ BatchIdle
    /\ SimIdle

\* open() raises: the file is reported and nothing else happens
ReadFail ==
    /\ pc = "ready"
    /\ pc' = "unreadable"
    /\ log' = Append(log, [file |-> input_file, outcome |-> "unreadable"])
    /\ UNCHANGED <<input_file, lines, keep_pids, keep_sec_ids, keep_mat_ids,
                   keep_node_ids, emitted, out, run, file_list, next_file,
                   input_dir, output_dir>>
    /\ UNCHANGED <<diff_vars, sim_vars>>

\* PASS 1 finds no odd Part: the function returns before PASS 2
ExtractSkip ==
    /\ pc = "ready"
    /\ LET found == pass1(lines)
       IN  /\ found.pids = {}
           /\ keep_pids' = found.pids
           /\ keep_sec_ids' = found.sec_ids
           /\ keep_mat_ids' = found.mat_ids
    /\ pc' = "skipped"
    /\ log' = Append(log, [file |-> input_file, outcome |-> "skipped"])
    /\ UNCHANGED <<input_file, lines, keep_node_ids, emitted, out, run, file_list,
                   next_file, input_dir, output_dir>>
    /\ UNCHANGED <<diff_vars, sim_vars>>

\* PASS 1, PASS 2 and PASS 3 of one call
ExtractSave ==
    /\ pc = "ready"
    /\ LET found == pass1(lines)
       IN  /\ found.pids /= {}
           /\ keep_pids' = found.pids
           /\ keep_sec_ids' = found.sec_ids
           /\ keep_mat_ids' = found.mat_ids
    /\ keep_node_ids' = pass2_node_ids(lines, keep_pids')
    /\ emitted' = pass3(lines, 1, keep_pids', keep_sec_ids', keep_mat_ids',
                        keep_node_ids')
    /\ out' = output_file(lines, input_file, emitted')
    /\ output_dir' = put(output_dir, out_name(input_file), out')
    /\ log' = Append(log, [file |-> input_file, outcome |-> "saved"])
    /\ pc' = "saved"
    /\ UNCHANGED <<input_file, lines, run, file_list, next_file, input_dir>>
    /\ UNCHANGED <<diff_vars, sim_vars>>

\* the tool is run again with the saved file as its input
Reextract ==
    /\ pc = "saved"
    /\ run < MaxRuns
    /\ input_file' = out_name(input_file)
    /\ lines' = out
    /\ keep_pids' = {}
    /\ keep_sec_ids' = {}
    /\ keep_mat_ids' = {}
    /\ keep_node_ids' = {}
    /\ emitted' = <<>>
    /\ out' = <<>>
    /\ pc' = "ready"
    /\ run' = run + 1
    /\ UNCHANGED <<file_list, next_file, input_dir, output_dir, log>>
    /\ UNCHANGED <<diff_vars, sim_vars>>

Next == ReadFail \/ ExtractSkip \/ ExtractSave \/ Reextract

Spec == Init /\ [][Next]_vars

(***************************************************************************)
(* Vocabulary of the properties: blocks and records of a deck, read off    *)
(* the text without reference to the passes.                               *)
(***************************************************************************)
\* the input lines that were written to the output
Written == {emitted[k] : k \in DOMAIN emitted}

Tokens(line) == tokenize(strip(line))

\* the header lines whose keyword starts with one of prefixes
Headers(ls, prefixes) ==
    {h \in DOMAIN ls : startswith_any(strip(ls[h]), prefixes)}

\* the lines of the block opened by header h, the header left out
Body(ls, h) == (h + 1)..(block_end(ls, h + 1) - 1)

\* the data lines of the blocks whose keyword starts with one of prefixes
Records(ls, prefixes) ==
    UNION {{k \in Body(ls, h) : ~is_comment(ls[k])} : h \in Headers(ls, prefixes)}

NodeRecords(ls) == Records(ls, <<kwNODE>>)

MassRecords(ls) == Records(ls, <<kwELEMENT_MASS>>)

\* records of the element blocks PASS 3 treats as standard: all but mass
StandardRecords(ls) ==
    Records(ls, <<kwELEMENT_SHELL, kwELEMENT_SOLID, kwELEMENT_BEAM,
                  kwELEMENT_TSHELL, kwELEMENT_DISCRETE>>)

\* the integer ids among the tokens of a line from token `first` (1-based) on
IdsFrom(line, first) ==
    LET t == Tokens(line)
    IN  {safe_int(t[k]).val : k \in {m \in first..Len(t) : safe_int(t[m]).some}}

\* the integer id at token `at` (1-based) of a line: a set of at most one id
IdAt(line, at) ==
    LET t == Tokens(line)
    IN  IF at <= Len(t) /\ safe_int(t[at]).some THEN {safe_int(t[at]).val} ELSE {}

\* Node ids a standard element references: every token after the second
StandardRefs(line) == IdsFrom(line, 3)

\* the first line after header h, before the next header, that is no comment;
\* 0 when the block has none
FirstDataLine(ls, h) ==
    LET body == {k \in Body(ls, h) : ~is_comment(ls[k])}
    IN  IF body = {} THEN 0 ELSE CHOOSE k \in body : \A m \in body : k <= m

\* the identifying data line of a *PART block under the lookahead rule: the
\* first data line, provided it is one of the four lines after the header
IdentifyingLine(ls, h) ==
    LET d == FirstDataLine(ls, h)
    IN  IF d /= 0 /\ d - h <= 4 THEN d ELSE 0

\* the id at token `at` of the identifying line of the *PART block at h
PartField(ls, h, at) ==
    IF IdentifyingLine(ls, h) = 0 THEN {} ELSE IdAt(ls[IdentifyingLine(ls, h)], at)

\* the id of a *SECTION_* or *MAT_* block: first token of its first data line
BlockId(ls, h) ==
    IF FirstDataLine(ls, h) = 0 THEN {} ELSE IdAt(ls[FirstDataLine(ls, h)], 1)

(***************************************************************************)
(* C1  Referential closure: every Node id referenced by a written element  *)
(* record (standard or mass) that has a Node record in the input has that  *)
(* Node record written too.                                                *)
(***************************************************************************)
ReferentialClosure ==
    pc = "saved" =>
        LET standard == StandardRecords(lines) \cap Written
            masses   == MassRecords(lines) \cap Written
        IN  \A n \in NodeRecords(lines) \ Written :
                LET id == IdAt(lines[n], 1)
                IN  /\ \A e \in standard : id \cap StandardRefs(lines[e]) = {}
                    /\ \A e \in masses : id \cap IdAt(lines[e], 2) = {}

\* a written shell with the record of one of its Nodes written, in a deck
\* that also holds a Node record that is left out
ReferentialClosureWitness ==
    /\ pc = "saved"
    /\ \E e \in StandardRecords(lines) \cap Written :
          \E n \in NodeRecords(lines) \cap Written :
              /\ IdAt(lines[n], 1) /= {}
              /\ IdAt(lines[n], 1) \subseteq StandardRefs(lines[e])
    /\ NodeRecords(lines) \ Written /= {}

(***************************************************************************)
(* C2  Idempotence: extracting from a saved output saves the same deck     *)
(* again, line for line; the provenance comment, which names the input     *)
(* file, is the one line left out of the comparison.                       *)
(***************************************************************************)
SameDeck(a, b) ==
    /\ Len(a) = Len(b)
    /\ \A k \in DOMAIN a : k /= 2 => a[k] = b[k]

Idempotence ==
    (run > 1 /\ pc \in {"saved", "skipped"}) =>
        (pc = "saved" /\ SameDeck(out, lines))

(***************************************************************************)
(* C3  Part retention is exact: a *PART block is written if and only if    *)
(* the Part id on its identifying data line is odd.                        *)
(***************************************************************************)
PartRetentionExact ==
    pc = "saved" =>
        \A h \in Headers(lines, <<kwPART>>) :
            h \in Written <=> \E p \in PartField(lines, h, 1) : is_odd(p)

(***************************************************************************)
(* C4  Section and Material retention is exact: a *SECTION_* block (a      *)
(* *MAT_* block) is written if and only if its id is the Section id        *)
(* (Material id) of some kept Part.                                        *)
(***************************************************************************)
SectionMaterialRetentionExact ==
    pc = "saved" =>
        /\ \A h \in Headers(lines, section_keywords) :
              h \in Written <=> BlockId(lines, h) \cap keep_sec_ids /= {}
        /\ \A h \in Headers(lines, <<kwMAT>>) :
              h \in Written <=> BlockId(lines, h) \cap keep_mat_ids /= {}

(***************************************************************************)
(* C5  Element retention.  As claimed: every data line of a standard       *)
(* element block is written exactly when its second token is a kept Part   *)
(* id.                                                                     *)
(***************************************************************************)
ElementKeptByPartAlone ==
    pc = "saved" =>
        \A k \in StandardRecords(lines) :
            k \in Written <=> IdAt(lines[k], 2) \cap keep_pids /= {}

\* C5 as amended: a data line of a standard element block is written exactly
\* when it has more than two tokens and its second token is a kept Part id.
ElementKeptByPartAndLength ==
    pc = "saved" =>
        \A k \in StandardRecords(lines) :
            k \in Written <=>
                (Len(Tokens(lines[k])) > 2 /\ IdAt(lines[k], 2) \cap keep_pids /= {})

\* an element of a kept Part written, an element of a dropped Part left out
\* and a two-token line of a kept Part left out
ElementKeptWitness ==
    /\ pc = "saved"
    /\ \E k \in StandardRecords(lines) \cap Written :
          IdAt(lines[k], 2) \cap keep_pids /= {}
    /\ \E k \in StandardRecords(lines) \ Written :
          /\ IdAt(lines[k], 2) /= {}
          /\ IdAt(lines[k], 2) \cap keep_pids = {}
    /\ \E k \in StandardRecords(lines) \ Written :
          /\ Len(Tokens(lines[k])) = 2
          /\ IdAt(lines[k], 2) \cap keep_pids /= {}

(***************************************************************************)
(* C6  Node retention is minimal: a written Node record has its id among   *)
(* the Node ids of some written record of a standard (non-mass) element    *)
(* block.                                                                  *)
(***************************************************************************)
NodeRetentionMinimal ==
    pc = "saved" =>
        LET referenced ==
                UNION {StandardRefs(lines[e]) : e \in StandardRecords(lines) \cap Written}
        IN  \A n \in NodeRecords(lines) \cap Written :
                /\ IdAt(lines[n], 1) /= {}
                /\ IdAt(lines[n], 1) \subseteq referenced

\* Nodes of a written element are written while Nodes referenced only by a
\* dropped element are left out
NodeRetentionWitness ==
    /\ pc = "saved"
    /\ NodeRecords(lines) \cap Written /= {}
    /\ \E n \in NodeRecords(lines) \ Written :
          \E e \in StandardRecords(lines) \ Written :
              /\ IdAt(lines[n], 1) /= {}
              /\ IdAt(lines[n], 1) \subseteq StandardRefs(lines[e])

(***************************************************************************)
(* C7  Mass-element rule: a *ELEMENT_MASS record is written exactly when   *)
(* its second token is in keep_node_ids, and keep_node_ids holds only Node *)
(* ids of standard element records whose Part is kept.                     *)
(***************************************************************************)
NodesOfKeptStandardElements ==
    UNION {StandardRefs(lines[k]) :
             k \in {m \in StandardRecords(lines) :
                      IdAt(lines[m], 2) \cap keep_pids /= {}}}

MassElementRule ==
    pc = "saved" =>
        /\ keep_node_ids = NodesOfKeptStandardElements
        /\ \A k \in MassRecords(lines) :
              k \in Written <=> IdAt(lines[k], 2) \cap keep_node_ids /= {}

\* a mass on a kept Node is written; a mass line whose second token is a kept
\* Part id and whose third token is a Node id is left out and adds no Node
MassElementWitness ==
    /\ pc = "saved"
    /\ MassRecords(lines) \cap Written /= {}
    /\ \E k \in MassRecords(lines) \ Written :
          /\ IdAt(lines[k], 2) \cap keep_pids /= {}
          /\ IdsFrom(lines[k], 3) /= {}
          /\ IdsFrom(lines[k], 3) \cap keep_node_ids = {}

(***************************************************************************)
(* C8  Unknown blocks are dropped: every written line lies in a block      *)
(* whose keyword is a Node, Element, Part, Section or Material keyword.    *)
(***************************************************************************)
KnownKinds ==
    <<kwNODE, <<"*", "E", "L", "E", "M", "E", "N", "T">>, kwPART,
      <<"*", "S", "E", "C", "T", "I", "O", "N">>, kwMAT>>

\* the lines of the blocks of the known kinds, headers included
KnownLines(ls) ==
    UNION {{h} \cup Body(ls, h) : h \in Headers(ls, KnownKinds)}

UnknownBlocksDropped ==
    pc = "saved" => Written \subseteq KnownLines(lines)

\* an output was saved from a deck that holds an unknown block with a data
\* line
UnknownBlocksWitness ==
    /\ pc = "saved"
    /\ Written /= {}
    /\ \E h \in Headers(lines, <<Star>>) \ Headers(lines, KnownKinds) :
          \E d \in Body(lines, h) : ~is_comment(lines[d]) /\ d \notin Written

(***************************************************************************)
(* C9  Every saved output begins with the deck-open marker and a           *)
(* provenance comment, ends with the deck-close marker, and holds each     *)
(* marker exactly once.                                                    *)
(***************************************************************************)
LinesEqual(file, text) == {k \in DOMAIN file : strip(file[k]) = strip(text)}

DeckMarkers ==
    pc = "saved" =>
        /\ Len(out) >= 3
        /\ out[1] = deck_open
        /\ out[2] = provenance_prefix \o input_file \o <<NL>>
        /\ out[Len(out)] = deck_close
        /\ Cardinality(LinesEqual(out, deck_open)) = 1
        /\ Cardinality(LinesEqual(out, deck_close)) = 1

(***************************************************************************)
(* C10  Duplicate Part ids.  As claimed: the Section id of the last        *)
(* definition of each kept Part, and no Section id of an earlier           *)
(* definition, is in keep_sec_ids.                                         *)
(***************************************************************************)
\* the *PART headers that define Part id p
DefinitionsOf(ls, p) ==
    {h \in Headers(ls, <<kwPART>>) : PartField(ls, h, 1) = {p}}

\* the last of them
LastDefinitionOf(ls, p) ==
    CHOOSE h \in DefinitionsOf(ls, p) : \A g \in DefinitionsOf(ls, p) : g <= h

Scale == 10 ^ 4

TOLERANCE == Scale \div 1000

\* str.upper() on the letters of the model's alphabet
Lower ==
    <<"a", "b", "c", "d", "e", "f", "g", "h", "i", "j", "k", "l", "m",
      "n", "o", "p", "q", "r", "s", "t", "u", "v", "w", "x", "y", "z">>

Upper ==
    <<"A", "B", "C", "D", "E", "F", "G", "H", "I", "J", "K", "L", "M",
      "N", "O", "P", "Q", "R", "S", "T", "U", "V", "W", "X", "Y", "Z">>

upper(s) ==
    [k \in DOMAIN s |->
        IF \E m \in DOMAIN Lower : Lower[m] = s[k]
        THEN Upper[CHOOSE m \in DOMAIN Lower : Lower[m] = s[k]]
        ELSE s[k]]

\* line_strip.split()[0] of a line that is not blank: the characters before
\* the first whitespace
RECURSIVE first_word(_)
first_word(s) ==
    IF s = <<>> \/ s[1] \in Whitespace THEN <<>>
    ELSE <<s[1]>> \o first_word(Tail(s))

\* line.split('$')[0]
RECURSIVE before_dollar(_)
before_dollar(s) ==
    IF s = <<>> \/ s[1] = "$" THEN <<>>
    ELSE <<s[1]>> \o before_dollar(Tail(s))

nonempty(t) == t /= <<>>

\* float(s), 0.0 when it raises.  Decimal literals: an optional sign, digits
\* and at most one point; fractional digits after the fourth are outside
\* the token alphabet of the model, as are exponents, inf and nan.
safe_float(s) ==
    LET signed == s /= <<>> /\ s[1] \in {"+", "-"}
        body   == IF signed THEN SubSeq(s, 2, Len(s)) ELSE s
        points == {k \in DOMAIN body : body[k] = "."}
        whole  == IF points = {} THEN body
                  ELSE SubSeq(body, 1, (CHOOSE k \in points : TRUE) - 1)
        frac   == IF points = {} THEN <<>>
                  ELSE SubSeq(body, (CHOOSE k \in points : TRUE) + 1, Len(body))
        digits == IF Len(frac) > 4 THEN SubSeq(frac, 1, 4) ELSE frac
        wellformed ==
            /\ Cardinality(points) <= 1
            /\ \A k \in DOMAIN body : body[k] \in Digits \cup {"."}
            /\ Len(whole) + Len(frac) >= 1
        magnitude ==
            int_of(whole) * Scale + int_of(digits) * 10 ^ (4 - Len(digits))
    IN  IF wellformed
        THEN (IF signed /\ s[1] = "-" THEN 0 - magnitude ELSE magnitude)
        ELSE 0

\* the (pid, secid) of a line whose first two tokens are digit strings
get_numeric_line(line) ==
    LET cut    == IF \E k \in DOMAIN line : line[k] = "$"
                  THEN before_dollar(line) ELSE line
        tokens == SelectSeq(tokenize(strip(cut)), nonempty)
    IN  IF Len(tokens) >= 2 /\ isdigit(tokens[1]) /\ isdigit(tokens[2])
        THEN [some |-> TRUE, pid |-> int_of(tokens[1]), secid |-> int_of(tokens[2])]
        ELSE [some |-> FALSE, pid |-> 0, secid |-> 0]

\* range(1, 5): the lookahead of the three keyword handlers stops before it
lookahead_end == 5

Unknown == <<"U", "n", "k", "n", "o", "w", "n">>

\* the lookahead of the *PART handler from `offset` on, part_name being the
\* name found so far
RECURSIVE part_scan(_, _, _, _)
part_scan(ls, i, offset, part_name) ==
    IF offset >= lookahead_end \/ i + offset > Len(ls)
    THEN [some |-> FALSE, pid |-> 0, secid |-> 0, name |-> part_name]
    ELSE LET look_line == strip(ls[i + offset])
         IN  IF startswith(look_line, Star)
             THEN [some |-> FALSE, pid |-> 0, secid |-> 0, name |-> part_name]
             ELSE IF startswith(look_line, Dollar)
             THEN part_scan(ls, i, offset + 1, part_name)
             ELSE LET ids == get_numeric_line(look_line)
                      prev_line == strip(ls[i + offset - 1])
                  IN  IF ids.some
                      THEN [some |-> TRUE, pid |-> ids.pid, secid |-> ids.secid,
                            name |-> IF offset > 1 /\ ~startswith(prev_line, Dollar)
                                     THEN prev_line ELSE part_name]
                      ELSE part_scan(ls, i, offset + 1,
                                     IF offset = 1 THEN look_line ELSE part_name)

\* the search for the thickness line from line j on
RECURSIVE thickness_scan(_, _)
thickness_scan(ls, j) ==
    IF j > Len(ls) THEN None
    ELSE LET nl == strip(ls[j])
         IN  IF startswith(nl, Star) THEN None
             ELSE IF nl = <<>> \/ startswith(nl, Dollar)
             THEN thickness_scan(ls, j + 1)
             ELSE Some(safe_float(tokenize(nl)[1]))

\* the lookahead of the *SECTION_SHELL and *SECTION_BEAM handlers
RECURSIVE section_scan(_, _, _)
section_scan(ls, i, offset) ==
    IF offset >= lookahead_end \/ i + offset > Len(ls)
    THEN [some |-> FALSE, secid |-> 0, val |-> 0]
    ELSE LET l == strip(ls[i + offset])
         IN  IF startswith(l, Star)
             THEN [some |-> FALSE, secid |-> 0, val |-> 0]
             ELSE IF startswith(l, Dollar)
             THEN section_scan(ls, i, offset + 1)
             ELSE IF isdigit(tokenize(l)[1])
             THEN LET found == thickness_scan(ls, i + offset + 1)
                  IN  [some |-> found.some, secid |-> int_of(tokenize(l)[1]),
                       val |-> found.val]
             ELSE section_scan(ls, i, offset + 1)

\* a store that keeps the first definition of a Part id
store_part_first_wins(parts, part) ==
    IF part.pid \in DOMAIN parts THEN parts
    ELSE put(parts, part.pid, [name |-> part.name, secid |-> part.secid, value |-> 0])

\* data["parts"][found_pid] = {...}
store_part(parts, part) ==
    put(parts, part.pid, [name |-> part.name, secid |-> part.secid, value |-> 0])

\* data["sections"][secid] = val
store_section(sections, found) == put(sections, found.secid, found.val)

\* a link step that resolves nothing
link_skipped(parts, sections) == parts

\* Link Sections to Parts
link(parts, sections) ==
    [pid \in DOMAIN parts |->
        IF parts[pid].secid \in DOMAIN sections
        THEN [parts[pid] EXCEPT !.value = sections[parts[pid].secid]]
        ELSE parts[pid]]

\* the loop over the lines from line i on
RECURSIVE parse_lines(_, _, _, _)
parse_lines(ls, i, parts, sections) ==
    IF i > Len(ls)
    THEN [some |-> TRUE, parts |-> link(parts, sections), sections |-> sections]
    ELSE LET line_strip == strip(ls[i])
             keyword    == upper(first_word(line_strip))
         IN  IF line_strip = <<>> \/ ~startswith(line_strip, Star)
             THEN parse_lines(ls, i + 1, parts, sections)
             ELSE IF startswith(keyword, kwPART)
             THEN LET part == part_scan(ls, i, 1, Unknown)
                  IN  parse_lines(ls, i + 1,
                          IF part.some THEN store_part(parts, part) ELSE parts,
                          sections)
             ELSE IF \/ startswith(keyword, kwSECTION_SHELL)
                     \/ startswith(keyword, kwSECTION_BEAM)
             THEN LET found == section_scan(ls, i, 1)
                  IN  parse_lines(ls, i + 1, parts,
                          IF found.some THEN store_section(sections, found)
                          ELSE sections)
             ELSE parse_lines(ls, i + 1, parts, sections)

parse_deep_search(ls) == parse_lines(ls, 1, <<>>, <<>>)

(***************************************************************************)
(* Input decks of parse_deep_search: up to MaxChunks of these blocks.      *)
(***************************************************************************)
\* Part 1 of Section 1, with a title line
deepPart1 ==
    <<<<"*", "P", "A", "R", "T", NL>>,
      <<"b", "r", "a", "c", "k", "e", "t", NL>>,
      <<"1", " ", "1", " ", "1", NL>>>>

\* Part 1 again, of Section 2
deepPart1Again ==
    <<<<"*", "P", "A", "R", "T", NL>>,
      <<"1", " ", "2", " ", "1", NL>>>>

\* Part 3 of Section 3, lower-case keyword and an inline comment
deepPart3 ==
    <<<<"*", "p", "a", "r", "t", NL>>,
      <<"$", " ", "p", "i", "d", " ", "s", "e", "c", "i", "d", NL>>,
      <<"3", " ", "3", " ", "1", " ", "$", " ", "r", "a", "i", "l", NL>>>>

\* a *PART block without a line of two integers
deepPartBad ==
    <<<<"*", "P", "A", "R", "T", NL>>,
      <<"1", " ", "x", NL>>>>

\* Section 1, thickness 2.0
deepShell1 ==
    <<<<"*", "S", "E", "C", "T", "I", "O", "N", "_", "S", "H", "E", "L",
        "L", NL>>,
      <<"$", " ", "s", "e", "c", "i", "d", NL>>,
      <<"1", " ", "0", NL>>,
      <<"2", ".", "0", " ", "2", ".", "0", NL>>>>

\* Section 1 again, thickness 2.0011 after a blank line
deepShell1Again ==
    <<<<"*", "S", "E", "C", "T", "I", "O", "N", "_", "S", "H", "E", "L",
        "L", NL>>,
      <<"1", " ", "0", NL>>,
      <<NL>>,
      <<"2", ".", "0", "0", "1", "1", NL>>>>

\* Section 2 twice: a shell of thickness 0.5, then a beam of -1.0 after a comment
deepSections2 ==
    <<<<"*", "S", "E", "C", "T", "I", "O", "N", "_", "S", "H", "E", "L",
        "L", NL>>,
      <<"2", " ", "0", NL>>,
      <<"0", ".", "5", NL>>,
      <<"*", "S", "E", "C", "T", "I", "O", "N", "_", "B", "E", "A", "M",
        NL>>,
      <<"2", " ", "1", NL>>,
      <<"$", " ", "t", "s", "1", NL>>,
      <<"-", "1", ".", "0", ",", "0", NL>>>>

\* Section 2 under a title, without a thickness line
deepShell2Bare ==
    <<<<"*", "S", "E", "C", "T", "I", "O", "N", "_", "S", "H", "E", "L",
        "L", "_", "T", "I", "T", "L", "E", NL>>,
      <<"s", "k", "i", "n", NL>>,
      <<"2", " ", "0", NL>>>>

\* Section 3 behind four comment lines: outside the lookahead
deepShell3Far ==
    <<<<"*", "S", "E", "C", "T", "I", "O", "N", "_", "S", "H", "E", "L",
        "L", NL>>,
      <<"$", NL>>,
      <<"$", NL>>,
      <<"$", NL>>,
      <<"$", NL>>,
      <<"3", " ", "0", NL>>,
      <<"0", ".", "5", NL>>>>

\* a solid Section 3: not a kind the parser reads
deepSolid3 ==
    <<<<"*", "S", "E", "C", "T", "I", "O", "N", "_", "S", "O", "L", "I",
        "D", NL>>,
      <<"3", " ", "1", NL>>,
      <<"9", ".", "0", NL>>>>

DeepChunks ==
    <<deepPart1, deepPart1Again, deepPart3, deepPartBad, deepShell1,
      deepShell1Again, deepSections2, deepShell2Bare, deepShell3Far,
      deepSolid3>>

RECURSIVE deep_concat(_, _)
deep_concat(choice, k) ==
    IF k > Len(choice) THEN <<>>
    ELSE DeepChunks[choice[k]] \o deep_concat(choice, k + 1)

DeepChoices == UNION {[1..k -> DOMAIN DeepChunks] : k \in 0..MaxChunks}

IsDeepDeck(ls) == \E c \in DeepChoices : ls = deep_concat(c, 1)

(***************************************************************************)
(* SpecParse: one call of worker on one file.                              *)
(***************************************************************************)
InitParse ==
    /\ IsDeepDeck(lines)
    /\ data = NoResult
    /\ pc = "unparsed"
    /\ ExtractIdle
    /\ BatchIdle
    /\ SimIdle

\* worker: parse_deep_search returns
Parse ==
    /\ pc = "unparsed"
    /\ data' = parse_deep_search(lines)
    /\ pc' = "parsed"
    /\ UNCHANGED <<extract_vars, all_files, deck_of, results, compared,
                   reports, diff_count, sim_vars>>

\* worker: parse_deep_search raises (the file cannot be opened)
ParseRaises ==
    /\ pc = "unparsed"
    /\ data' = NoResult
    /\ pc' = "failed"
    /\ UNCHANGED <<extract_vars, all_files, deck_of, results, compared,
                   reports, diff_count, sim_vars>>

NextParse == Parse \/ ParseRaises

SpecParse == InitParse /\ [][NextParse]_vars

(***************************************************************************)
(* Vocabulary of the comparator's properties: the definitions a deck       *)
(* holds, read off the text.                                               *)
(***************************************************************************)
\* the header lines whose keyword, in upper case, starts with one of prefixes
DeepHeaders(ls, prefixes) ==
    {h \in DOMAIN ls :
        startswith_any(upper(first_word(strip(ls[h]))), prefixes)}

\* the lines the lookahead rule reaches from header h: the four lines after
\* it, up to the next header
Window(ls, h) ==
    {k \in (h + 1)..(h + 4) : k <= Len(ls) /\ k < block_end(ls, h + 1)}

Least(S) == CHOOSE k \in S : \A m \in S : k <= m

Greatest(S) == CHOOSE k \in S : \A m \in S : m <= k

\* the line of a *PART block that carries its ids: the first line of the
\* window that is no comment and starts with two integers; 0 if none
PartIdLine(ls, h) ==
    LET S == {k \in Window(ls, h) :
                ~is_comment(ls[k]) /\ get_numeric_line(strip(ls[k])).some}
    IN  IF S = {} THEN 0 ELSE Least(S)

\* the *PART headers that define a Part, and what they define
PartDefinitions(ls) ==
    {h \in DeepHeaders(ls, <<kwPART>>) : PartIdLine(ls, h) /= 0}

DefinedPart(ls, h) == get_numeric_line(strip(ls[PartIdLine(ls, h)])).pid

DefinedPartSection(ls, h) == get_numeric_line(strip(ls[PartIdLine(ls, h)])).secid

\* the line of a shell or beam Section block that carries its id: the first
\* line of the window that is no comment and whose first token is an integer
SectionIdLine(ls, h) ==
    LET S == {k \in Window(ls, h) :
                ~is_comment(ls[k]) /\ isdigit(tokenize(strip(ls[k]))[1])}
    IN  IF S = {} THEN 0 ELSE Least(S)

\* the thickness line of that block: the next line after the id line, before
\* the next header, that is neither blank nor a comment; 0 if none
ThicknessLine(ls, h) ==
    LET k == SectionIdLine(ls, h)
        S == {j \in (k + 1)..(block_end(ls, k + 1) - 1) :
                strip(ls[j]) /= <<>> /\ ~is_comment(ls[j])}
    IN  IF k = 0 \/ S = {} THEN 0 ELSE Least(S)

\* the shell and beam Section headers that define a thickness
SectionDefinitions(ls) ==
    {h \in DeepHeaders(ls, <<kwSECTION_SHELL, kwSECTION_BEAM>>) :
        ThicknessLine(ls, h) /= 0}

DefinedSection(ls, h) == int_of(tokenize(strip(ls[SectionIdLine(ls, h)]))[1])

DefinedThickness(ls, h) ==
    safe_float(tokenize(strip(ls[ThicknessLine(ls, h)]))[1])

\* the definitions of Part pid, and those of Section sid
DefinitionsOfPart(ls, pid) ==
    {h \in PartDefinitions(ls) : DefinedPart(ls, h) = pid}

DefinitionsOfSection(ls, sid) ==
    {h \in SectionDefinitions(ls) : DefinedSection(ls, h) = sid}

(***************************************************************************)
(* C11  Duplicate-id override: the Part map of a file holds, for every     *)
(* Part id the file defines, the Section id of the last definition of that *)
(* Part, and the thickness of the last definition of that Section when the *)
(* file defines the Section.                                               *)
(***************************************************************************)
LastDefinitionWins ==
    pc = "parsed" =>
        \A h \in PartDefinitions(lines) :
            LET pid  == DefinedPart(lines, h)
                last == Greatest(DefinitionsOfPart(lines, pid))
                sid  == DefinedPartSection(lines, last)
                secs == DefinitionsOfSection(lines, sid)
            IN  /\ pid \in DOMAIN data.parts
                /\ data.parts[pid].secid = sid
                /\ secs /= {} =>
                      data.parts[pid].value = DefinedThickness(lines, Greatest(secs))

\* a Part defined twice with different Section ids, the Section of the last
\* definition defined twice with different thicknesses
LastDefinitionWinsWitness ==
    /\ pc = "parsed"
    /\ \E g, h \in PartDefinitions(lines) :
          /\ g < h
          /\ DefinedPart(lines, g) = DefinedPart(lines, h)
          /\ DefinedPartSection(lines, g) /= DefinedPartSection(lines, h)
          /\ h = Greatest(DefinitionsOfPart(lines, DefinedPart(lines, h)))
          /\ \E s, t \in DefinitionsOfSection(lines, DefinedPartSection(lines, h)) :
                /\ s < t
                /\ DefinedThickness(lines, s) /= DefinedThickness(lines, t)

(***************************************************************************)
(* C15  Tracked value resolution: the value of every Part of the map is    *)
(* the thickness of a shell or beam Section of the file whose id is the    *)
(* Part's Section id when the file defines such a Section anywhere, and    *)
(* 0.0 when it defines none.                                               *)
(***************************************************************************)
ValueResolved ==
    pc = "parsed" =>
        \A pid \in DOMAIN data.parts :
            LET secs == DefinitionsOfSection(lines, data.parts[pid].secid)
            IN  IF secs = {}
                THEN data.parts[pid].value = 0
                ELSE \E s \in secs :
                        data.parts[pid].value = DefinedThickness(lines, s)

\* a Part resolved through a Section defined after it, next to a Part whose
\* Section the file does not define
ValueResolvedWitness ==
    /\ pc = "parsed"
    /\ \E h \in PartDefinitions(lines) :
          /\ h = Greatest(DefinitionsOfPart(lines, DefinedPart(lines, h)))
          /\ \E s \in DefinitionsOfSection(lines, DefinedPartSection(lines, h)) :
                h < s /\ DefinedThickness(lines, s) /= 0
          /\ data.parts[DefinedPart(lines, h)].value /= 0
    /\ \E pid \in DOMAIN data.parts :
          /\ DefinitionsOfSection(lines, data.parts[pid].secid) = {}
          /\ data.parts[pid].value = 0

(***************************************************************************)
(* main of ss1.py: the design files, their names and paths.                *)
(***************************************************************************)
MaxFiles == 3

\* Part 1 of thickness 2.0, Part 3 of an undefined Section
designA ==
    <<<<"*", "P", "A", "R", "T", NL>>,
      <<"b", "r", "a", "c", "k", "e", "t", NL>>,
      <<"1", " ", "1", " ", "1", NL>>,
      <<"*", "S", "E", "C", "T", "I", "O", "N", "_", "S", "H", "E", "L",
        "L", NL>>,
      <<"$", " ", "s", "e", "c", "i", "d", NL>>,
      <<"1", " ", "0", NL>>,
      <<"2", ".", "0", " ", "2", ".", "0", NL>>,
      <<"*", "p", "a", "r", "t", NL>>,
      <<"$", " ", "p", "i", "d", " ", "s", "e", "c", "i", "d", NL>>,
      <<"3", " ", "3", " ", "1", " ", "$", " ", "r", "a", "i", "l", NL>>>>

\* Part 1 of thickness 2.0011
designB ==
    <<<<"*", "P", "A", "R", "T", NL>>,
      <<"b", "r", "a", "c", "k", "e", "t", NL>>,
      <<"1", " ", "1", " ", "1", NL>>,
      <<"*", "S", "E", "C", "T", "I", "O", "N", "_", "S", "H", "E", "L",
        "L", NL>>,
      <<"1", " ", "0", NL>>,
      <<NL>>,
      <<"2", ".", "0", "0", "1", "1", NL>>>>

\* Part 1 of thickness 2.001, Part 3 of thickness 0.001
designC ==
    <<<<"*", "P", "A", "R", "T", NL>>,
      <<"b", "r", "a", "c", "k", "e", "t", NL>>,
      <<"1", " ", "1", " ", "1", NL>>,
      <<"*", "P", "A", "R", "T", NL>>,
      <<"3", " ", "3", " ", "1", NL>>,
      <<"*", "S", "E", "C", "T", "I", "O", "N", "_", "S", "H", "E", "L",
        "L", NL>>,
      <<"1", " ", "0", NL>>,
      <<"2", ".", "0", "0", "1", NL>>,
      <<"*", "S", "E", "C", "T", "I", "O", "N", "_", "B", "E", "A", "M",
        NL>>,
      <<"3", " ", "1", NL>>,
      <<"0", ".", "0", "0", "1", NL>>>>

\* Part 1 of thickness -1.0
designD ==
    <<<<"*", "P", "A", "R", "T", NL>>,
      <<"1", " ", "2", " ", "1", NL>>,
      <<"*", "S", "E", "C", "T", "I", "O", "N", "_", "B", "E", "A", "M",
        NL>>,
      <<"2", " ", "1", NL>>,
      <<"$", " ", "t", "s", "1", NL>>,
      <<"-", "1", ".", "0", ",", "0", NL>>>>

\* Parts 1 and 3 of undefined Sections
designE ==
    <<<<"*", "P", "A", "R", "T", NL>>,
      <<"b", "r", "a", "c", "k", "e", "t", NL>>,
      <<"1", " ", "1", " ", "1", NL>>,
      <<"*", "P", "A", "R", "T", NL>>,
      <<"r", "a", "i", "l", NL>>,
      <<"3", " ", "3", " ", "1", NL>>>>

DesignDecks == <<designA, designB, designC, designD, designE>>

\* CONFIG["INPUT_DIR"]
INPUT_DIR == <<"i", "n">>

sep == "/"

\* the names FILE_PATTERN matches: Design_*.dyn
design_prefix == <<"D", "e", "s", "i", "g", "n", "_">>

design_suffix == <<".", "d", "y", "n">>

\* f"Diff_{name_a}_VS_{name_b}.csv"
diff_prefix == <<"D", "i", "f", "f", "_">>

diff_infix == <<"_", "V", "S", "_">>

diff_suffix == <<".", "c", "s", "v">>

DigitChars == <<"1", "2", "3", "4", "5", "6", "7", "8", "9">>

\* the k-th design file of the input directory
design_name(k) == design_prefix \o <<DigitChars[k]>> \o design_suffix

\* os.path.join(dir, name)
join(dir, name) == dir \o <<sep>> \o name

\* os.path.basename(path): what follows the last separator
RECURSIVE basename(_)
basename(path) ==
    IF \E k \in DOMAIN path : path[k] = sep
    THEN basename(Tail(path))
    ELSE path

\* code points of the characters of the paths
ord(c) ==
    IF c \in Digits THEN 48 + DigitVal[c]
    ELSE IF \E m \in DOMAIN Upper : Upper[m] = c
    THEN 64 + (CHOOSE m \in DOMAIN Upper : Upper[m] = c)
    ELSE IF \E m \in DOMAIN Lower : Lower[m] = c
    THEN 96 + (CHOOSE m \in DOMAIN Lower : Lower[m] = c)
    ELSE IF c = "_" THEN 95
    ELSE IF c = "." THEN 46
    ELSE 47

\* a < b on strings
RECURSIVE str_less(_, _)
str_less(a, b) ==
    IF b = <<>> THEN FALSE
    ELSE IF a = <<>> THEN TRUE
    ELSE IF a[1] = b[1] THEN str_less(Tail(a), Tail(b))
    ELSE ord(a[1]) < ord(b[1])

\* sorted(S)
RECURSIVE sorted(_)
sorted(S) ==
    IF S = {} THEN <<>>
    ELSE LET least == CHOOSE a \in S : \A b \in S \ {a} : str_less(a, b)
         IN  <<least>> \o sorted(S \ {least})

\* every ordered pair of distinct positions, both orders
RECURSIVE ordered_pairs(_, _, _)
ordered_pairs(files, i, j) ==
    IF i > Len(files) THEN <<>>
    ELSE IF j > Len(files) THEN ordered_pairs(files, i + 1, 1)
    ELSE (IF i = j THEN <<>> ELSE <<<<files[i], files[j]>>>>)
         \o ordered_pairs(files, i, j + 1)

all_ordered_pairs(files) == ordered_pairs(files, 1, 1)

\* itertools.combinations(files, 2) from positions i < j on
RECURSIVE pairs_from(_, _, _)
pairs_from(files, i, j) ==
    IF i >= Len(files) THEN <<>>
    ELSE IF j > Len(files) THEN pairs_from(files, i + 1, i + 2)
    ELSE <<<<files[i], files[j]>>>> \o pairs_from(files, i, j + 1)

\* list(itertools.combinations(all_files, 2))
combinations(files) == pairs_from(files, 1, 2)

abs(x) == IF x < 0 THEN 0 - x ELSE x

\* a comparison that also takes a difference equal to the tolerance
reaches(val_a, val_b) == abs(val_a - val_b) >= TOLERANCE

\* abs(val_a - val_b) > CONFIG["TOLERANCE"]
exceeds(val_a, val_b) == abs(val_a - val_b) > TOLERANCE

\* the two tests a common Part passes to be added to changes
is_change(val_a, val_b) == exceeds(val_a, val_b) /\ (val_a > 0 \/ val_b > 0)

\* the changes of one pair: (pid, part_name, val_a, val_b) of every common
\* Part that passes the tests.  The order of the list is the iteration order
\* of the set common_pids and is not modelled.
changes_of(data_a, data_b) ==
    {<<pid, data_a.parts[pid].name, data_a.parts[pid].value,
       data_b.parts[pid].value>> :
        pid \in {p \in DOMAIN data_a.parts \cap DOMAIN data_b.parts :
                    is_change(data_a.parts[p].value, data_b.parts[p].value)}}

\* the name of the pairwise report of two files
diff_name(name_a, name_b) ==
    diff_prefix \o name_a \o diff_infix \o name_b \o diff_suffix

(***************************************************************************)
(* SpecDiff: one run of main of ss1.py over the design files of the input  *)
(* directory.  The workers of the pool return in any order; the loop over  *)
(* the combinations starts when all of them have returned.                 *)
(***************************************************************************)
range(f) == {f[k] : k \in DOMAIN f}

InitDiff ==
    /\ \E n \in 0..MaxFiles :
          all_files = sorted({join(INPUT_DIR, design_name(k)) : k \in 1..n})
    /\ deck_of \in [range(all_files) -> range(DesignDecks)]
    /\ results = <<>>
    /\ compared = 0
    /\ reports = <<>>
    /\ diff_count = 0
    /\ pc = "started"
    /\ lines = <<>>
    /\ data = NoResult
    /\ ExtractIdle
    /\ SimIdle

\* fewer than two design files: main returns
TooFew ==
    /\ pc = "started"
    /\ Len(all_files) < 2
    /\ pc' = "done"
    /\ UNCHANGED <<extract_vars, diff_vars, sim_vars>>

\* variant: the results are keyed by the order in which the workers return
Worker_keyed_by_completion ==
    /\ pc = "started"
    /\ Len(all_files) >= 2
    /\ \E fpath \in range(all_files) :
          results' = put(results, all_files[Cardinality(DOMAIN results) + 1],
                         parse_deep_search(deck_of[fpath]))
    /\ Cardinality(DOMAIN results) < Len(all_files)
    /\ UNCHANGED <<extract_vars, data, all_files, deck_of, compared, reports,
                   diff_count, sim_vars, pc>>

\* a worker of the pool returns the parse of its file
Worker ==
    /\ pc = "started"
    /\ Len(all_files) >= 2
    /\ \E fpath \in range(all_files) \ DOMAIN results :
          results' = put(results, fpath, parse_deep_search(deck_of[fpath]))
    /\ UNCHANGED <<extract_vars, data, all_files, deck_of, compared, reports,
                   diff_count, sim_vars, pc>>

\* a worker of the pool returns None: parse_deep_search raised
WorkerRaises ==
    /\ pc = "started"
    /\ Len(all_files) >= 2
    /\ \E fpath \in range(all_files) \ DOMAIN results :
          results' = put(results, fpath, NoResult)
    /\ UNCHANGED <<extract_vars, data, all_files, deck_of, compared, reports,
                   diff_count, sim_vars, pc>>

\* one iteration of the loop over file_combinations
ComparePair ==
    /\ pc = "started"
    /\ Len(all_files) >= 2
    /\ DOMAIN results = range(all_files)
    /\ compared < Len(combinations(all_files))
    /\ LET file_a  == combinations(all_files)[compared + 1][1]
           file_b  == combinations(all_files)[compared + 1][2]
           name_a  == basename(file_a)
           name_b  == basename(file_b)
           data_a  == results[file_a]
           data_b  == results[file_b]
           changes == changes_of(data_a, data_b)
       IN  IF ~data_a.some \/ ~data_b.some \/ changes = {}
           THEN UNCHANGED <<reports, diff_count>>
           ELSE /\ diff_count' = diff_count + 1
                /\ reports' = Append(reports,
                                  [name_a |-> name_a, name_b |-> name_b,
                                   out_name |-> diff_name(name_a, name_b),
                                   changes |-> changes])
    /\ compared' = compared + 1
    /\ UNCHANGED <<extract_vars, data, all_files, deck_of, results, sim_vars, pc>>

\* the loop is over: the summary is printed
Finish ==
    /\ pc = "started"
    /\ Len(all_files) >= 2
    /\ DOMAIN results = range(all_files)
    /\ compared = Len(combinations(all_files))
    /\ pc' = "done"
    /\ UNCHANGED <<extract_vars, diff_vars, sim_vars>>

NextDiff == TooFew \/ Worker \/ WorkerRaises \/ ComparePair \/ Finish

SpecDiff == InitDiff /\ [][NextDiff]_vars

(***************************************************************************)
(* Vocabulary of the properties of a run of main.                          *)
(***************************************************************************)
\* the pairs of files the loop has gone through
Examined == {combinations(all_files)[k] : k \in 1..compared}

\* both files of a pair were parsed
BothParsed(pair) == results[pair[1]].some /\ results[pair[2]].some

\* the Part ids present in the maps of both files
CommonParts(pair) ==
    DOMAIN results[pair[1]].parts \cap DOMAIN results[pair[2]].parts

\* the tracked value of a Part in the map of a file
ValueIn(fpath, pid) == results[fpath].parts[pid].value

\* the distance of the values of a Part in the two files of a pair
Distance(pair, pid) == abs(ValueIn(pair[1], pid) - ValueIn(pair[2], pid))

\* the reports saved for a pair of files, in either order
ReportsOf(file_a, file_b) ==
    {k \in DOMAIN reports :
        {reports[k].name_a, reports[k].name_b} = {basename(file_a), basename(file_b)}}

\* a Part is flagged for a pair when a report of the pair lists it
Flagged(pair, pid) ==
    \E k \in ReportsOf(pair[1], pair[2]) : \E c \in reports[k].changes : c[1] = pid

(***************************************************************************)
(* C12  Flag condition: for every pair of parsed files and every Part id   *)
(* in both maps, the Part is flagged if and only if the distance of its    *)
(* two values exceeds the tolerance and one of the two values is nonzero.  *)
(***************************************************************************)
FlagCondition ==
    \A pair \in Examined :
        BothParsed(pair) =>
            \A pid \in CommonParts(pair) :
                Flagged(pair, pid) <=>
                    /\ Distance(pair, pid) > TOLERANCE
                    /\ (ValueIn(pair[1], pid) /= 0 \/ ValueIn(pair[2], pid) /= 0)

EveryPairOnce ==
    (pc = "done" /\ Len(all_files) >= 2) =>
        LET combos == combinations(all_files)
            N      == Len(all_files)
        IN  /\ compared = (N * (N - 1)) \div 2
            /\ \A k \in DOMAIN combos : combos[k][1] /= combos[k][2]
            /\ \A i, j \in 1..N :
                  i < j =>
                      /\ Cardinality({k \in 1..compared :
                            {combos[k][1], combos[k][2]}
                                = {all_files[i], all_files[j]}}) = 1
                      /\ Cardinality(ReportsOf(all_files[i], all_files[j])) =
                            IF /\ results[all_files[i]].some
                               /\ results[all_files[j]].some
                               /\ changes_of(results[all_files[i]],
                                             results[all_files[j]]) /= {}
                            THEN 1 ELSE 0
            /\ diff_count = Len(reports)

\* a finished run over three parsed files with a pair that was reported and
\* a pair that was not
EveryPairOnceWitness ==
    /\ pc = "done"
    /\ Len(all_files) >= 3
    /\ \A fpath \in range(all_files) : results[fpath].some
    /\ \E i, j \in DOMAIN all_files :
          i < j /\ ReportsOf(all_files[i], all_files[j]) /= {}
    /\ \E i, j \in DOMAIN all_files :
          i < j /\ ReportsOf(all_files[i], all_files[j]) = {}

(***************************************************************************)
(***************************************************************************)
(* The similarity engine (src/similarity.py).                              *)
(*                                                                         *)
(* KeyFile comes from the qd library: the model takes the object it        *)
(* returns as the input, a sequence of keyword cards, each with a keyword  *)
(* name, its field names and the value of every field, or the fact that    *)
(* the constructor raised.  A field value is an int, a float or a str:     *)
(* [t |-> "int", v |-> n], [t |-> "float", v |-> the number in units of    *)
(* 1e-7] or [t |-> "str", v |-> the characters].  A score is counted in    *)
(* hundredths of a percent, the resolution round(..., 2) leaves.           *)
(***************************************************************************)
(***************************************************************************)
IntVal(n) == [t |-> "int", v |-> n]

FloatVal(units) == [t |-> "float", v |-> units]

StrVal(s) == [t |-> "str", v |-> s]

\* what dict.get returns for a missing key
Absent == [t |-> "none", v |-> 0]

\* the units of a float in 1
FloatUnit == 10 ^ 7

\* round(raw_val, 6): to the nearest multiple of ten units, a tie to the even
\* one
round6(units) ==
    LET q == units \div 10
        r == units % 10
    IN  IF r < 5 THEN 10 * q
        ELSE IF r > 5 THEN 10 * (q + 1)
        ELSE IF q % 2 = 0 THEN 10 * q ELSE 10 * (q + 1)

\* the ACCURACY LAYER of _canonicalize
normalize(raw_val) ==
    IF raw_val.t = "float" THEN FloatVal(round6(raw_val.v))
    ELSE IF raw_val.t = "str" THEN StrVal(strip(raw_val.v))
    ELSE raw_val

\* card_id = "Global"
Global == StrVal(<<"G", "l", "o", "b", "a", "l">>)

id_fields == <<"id", "pid", "mid", "secid", "eid", "nid">>

\* the id of a card: the raw value of the first of id_fields it has
card_id_of(kw) ==
    LET present == {k \in DOMAIN id_fields :
                      \E m \in DOMAIN kw.field_names : kw.field_names[m] = id_fields[k]}
    IN  IF present = {} THEN Global
        ELSE kw.vals[id_fields[CHOOSE k \in present : \A m \in present : k <= m]]

\* the normalized fields of a card
fields_of(kw) ==
    [name \in {kw.field_names[m] : m \in DOMAIN kw.field_names} |->
        normalize(kw.vals[name])]

\* data[kw_name][card_id] = fields on the defaultdict
store_card(dict, kw) ==
    put(dict, kw.name,
        put(IF kw.name \in DOMAIN dict THEN dict[kw.name] ELSE <<>>,
            card_id_of(kw), fields_of(kw)))

\* the loop of _canonicalize from keyword k on
RECURSIVE canonicalize_from(_, _, _)
canonicalize_from(keyfile, k, dict) ==
    IF k > Len(keyfile) THEN dict
    ELSE canonicalize_from(keyfile, k + 1, store_card(dict, keyfile[k]))

canonicalize(keyfile) == canonicalize_from(keyfile, 1, <<>>)

\* the state of a defaultdict(dict) after its items `keys` were read
touched(dict, keys) ==
    [k \in DOMAIN dict \cup keys |-> IF k \in DOMAIN dict THEN dict[k] ELSE <<>>]

\* the number an int or a float stands for, in float units
number(val) == IF val.t = "int" THEN val.v * FloatUnit ELSE val.v

\* r_val == t_val
py_eq(r_val, t_val) ==
    IF r_val.t \in {"int", "float"} /\ t_val.t \in {"int", "float"}
    THEN number(r_val) = number(t_val)
    ELSE IF r_val.t = t_val.t THEN r_val.v = t_val.v ELSE FALSE

\* math.isclose(a, b, rel_tol=1e-5) on two floats
isclose(a, b) ==
    \/ a = b
    \/ abs(a - b) <= (IF abs(a) > abs(b) THEN abs(a) ELSE abs(b)) \div (10 ^ 5)

\* a test that also takes a field the target lacks for a match
field_matches_or_absent(r_val, t_val) ==
    \/ t_val = Absent
    \/ py_eq(r_val, t_val)
    \/ (r_val.t = "float" /\ t_val.t = "float" /\ isclose(r_val.v, t_val.v))

\* the two tests that count a field as matching
field_matches(r_val, t_val) ==
    \/ py_eq(r_val, t_val)
    \/ (r_val.t = "float" /\ t_val.t = "float" /\ isclose(r_val.v, t_val.v))

\* a loop over the fields both records have
fields_counted_common(ref_vals, tgt_vals) == DOMAIN ref_vals \cap DOMAIN tgt_vals

\* the fields the inner loop goes through: ref_vals.items()
fields_counted(ref_vals, tgt_vals) == DOMAIN ref_vals

\* dict.get(field)
get(dict, key) == IF key \in DOMAIN dict THEN dict[key] ELSE Absent

\* the counters after the loop over the fields of one card
count_card(ref_vals, tgt_vals, counters) ==
    LET fields == fields_counted(ref_vals, tgt_vals)
    IN  [total_fields |-> counters.total_fields + Cardinality(fields),
         matching_fields |-> counters.matching_fields +
            Cardinality({f \in fields : field_matches(ref_vals[f], get(tgt_vals, f))})]

\* a count in which the fields of the reference cards the target lacks are
\* counted too, as fields that do not match
count_cards_with_missing(ref_cards, tgt_cards, ids, counters) ==
    LET counted == UNION {{<<cid, f>> : f \in DOMAIN ref_cards[cid]} :
                             cid \in DOMAIN ref_cards}
        matching == {pair \in counted :
                        /\ pair[1] \in ids
                        /\ field_matches(ref_cards[pair[1]][pair[2]],
                                         get(tgt_cards[pair[1]], pair[2]))}
    IN  [total_fields |-> counters.total_fields + Cardinality(counted),
         matching_fields |-> counters.matching_fields + Cardinality(matching)]

\* the counters after the loop over the cards `ids` of one keyword
RECURSIVE count_cards(_, _, _, _)
count_cards(ref_cards, tgt_cards, ids, counters) ==
    IF ids = {} THEN counters
    ELSE LET cid == CHOOSE c \in ids : TRUE
         IN  count_cards(ref_cards, tgt_cards, ids \ {cid},
                         count_card(ref_cards[cid], tgt_cards[cid], counters))

\* the counters after the loop over the keywords `kws`
RECURSIVE count_keywords(_, _, _, _)
count_keywords(ref, tgt, kws, counters) ==
    IF kws = {} THEN counters
    ELSE LET kw == CHOOSE k \in kws : TRUE
         IN  count_keywords(ref, tgt, kws \ {kw},
                 count_cards(ref[kw], tgt[kw],
                             DOMAIN ref[kw] \cap DOMAIN tgt[kw], counters))

\* a loop over the keywords of either file
compared_keywords_union(ref_kws, tgt_kws) == ref_kws \cup tgt_kws

\* the keywords the outer loop goes through: intersection
compared_keywords(ref_kws, tgt_kws) == ref_kws \cap tgt_kws

\* n / d, 0.0 when d is 0, as a fraction
ratio(n, d) == IF d > 0 THEN [num |-> n, den |-> d] ELSE [num |-> 0, den |-> 1]

\* the integer nearest to n / d (n >= 0, d > 0), a tie to the even one
round_div(n, d) ==
    LET q == n \div d
        r == n % d
    IN  IF 2 * r < d THEN q
        ELSE IF 2 * r > d THEN q + 1
        ELSE IF q % 2 = 0 THEN q ELSE q + 1

\* a score with the two weights exchanged
final_score_swapped(struct_score, param_score) ==
    round_div(8000 * struct_score.num * param_score.den
                  + 2000 * param_score.num * struct_score.den,
              struct_score.den * param_score.den)

\* round(((0.2 * struct_score) + (0.8 * param_score)) * 100, 2), in hundredths
final_score(struct_score, param_score) ==
    round_div(2000 * struct_score.num * param_score.den
                  + 8000 * param_score.num * struct_score.den,
              struct_score.den * param_score.den)

\* the locals of calculate_score when the target parsed
score_locals(ref, ref_kws, tgt) ==
    LET tgt_keywords == DOMAIN tgt
        intersection == ref_kws \cap tgt_keywords
        union        == ref_kws \cup tgt_keywords
        looped       == compared_keywords(ref_kws, tgt_keywords)
        counters     == count_keywords(touched(ref, looped), touched(tgt, looped),
                                       looped,
                                       [total_fields |-> 0, matching_fields |-> 0])
    IN  [raised          |-> FALSE,
         intersection    |-> intersection,
         union           |-> union,
         struct_score    |-> ratio(Cardinality(intersection), Cardinality(union)),
         total_fields    |-> counters.total_fields,
         matching_fields |-> counters.matching_fields,
         param_score     |-> ratio(counters.matching_fields, counters.total_fields)]

\* *PART 1 with the fields a = 1 and b = 2
cardPartAB ==
    [name |-> "PART",
     field_names |-> <<"pid", "a", "b">>,
     vals |-> [pid |-> IntVal(1), a |-> IntVal(1), b |-> IntVal(2)]]

\* *PART 1 with the field a = 1 alone
cardPartA ==
    [name |-> "PART",
     field_names |-> <<"pid", "a">>,
     vals |-> [pid |-> IntVal(1), a |-> IntVal(1)]]

\* *SECTION_SHELL 1, t1 = t2 = 0.5
cardShellHalf ==
    [name |-> "SECTION_SHELL",
     field_names |-> <<"secid", "t1", "t2">>,
     vals |-> [secid |-> IntVal(1), t1 |-> FloatVal(5000000), t2 |-> FloatVal(5000000)]]

\* *SECTION_SHELL 1, t1 = 0.500001 (within rel_tol of 0.5), t2 = 0.5000001
\* (0.5 once rounded)
cardShellNear ==
    [name |-> "SECTION_SHELL",
     field_names |-> <<"secid", "t1", "t2">>,
     vals |-> [secid |-> IntVal(1), t1 |-> FloatVal(5000010), t2 |-> FloatVal(5000001)]]

\* *SECTION_SHELL 1, t1 = 0.6
cardShellFar ==
    [name |-> "SECTION_SHELL",
     field_names |-> <<"secid", "t1", "t2">>,
     vals |-> [secid |-> IntVal(1), t1 |-> FloatVal(6000000), t2 |-> FloatVal(5000000)]]

\* *MAT_ELASTIC 1 as a later card of the same file redefines it
cardMatStale ==
    [name |-> "MAT_ELASTIC",
     field_names |-> <<"mid", "title", "ro">>,
     vals |-> [mid |-> IntVal(1), title |-> StrVal(<<"O", "L", "D">>), ro |-> IntVal(9)]]

\* *MAT_ELASTIC 1 titled "MAT1  ", ro the int 1
cardMatPadded ==
    [name |-> "MAT_ELASTIC",
     field_names |-> <<"mid", "title", "ro">>,
     vals |-> [mid |-> IntVal(1), title |-> StrVal(<<"M", "A", "T", "1", " ", " ">>), ro |-> IntVal(1)]]

\* *MAT_ELASTIC 1 titled "MAT1", ro the float 1.0
cardMatBare ==
    [name |-> "MAT_ELASTIC",
     field_names |-> <<"mid", "title", "ro">>,
     vals |-> [mid |-> IntVal(1), title |-> StrVal(<<"M", "A", "T", "1">>), ro |-> FloatVal(10000000)]]

\* *MAT_ELASTIC 2
cardMatOther ==
    [name |-> "MAT_ELASTIC",
     field_names |-> <<"mid", "title", "ro">>,
     vals |-> [mid |-> IntVal(2), title |-> StrVal(<<"M", "A", "T", "2">>), ro |-> IntVal(1)]]

\* *END: a keyword without fields or id
cardEnd ==
    [name |-> "END",
     field_names |-> <<>>,
     vals |-> <<>>]

\* the cards a file may have for each of three keywords, in file order
PartCards == {<<>>, <<cardPartAB>>, <<cardPartA>>}

ShellCards == {<<>>, <<cardShellHalf>>, <<cardShellNear>>, <<cardShellFar>>}

TailCards ==
    {<<>>, <<cardMatPadded>>, <<cardMatStale, cardMatBare, cardMatOther>>,
     <<cardEnd>>}

\* the KeyFile objects of the model
KeyFiles == {p \o s \o t : p \in PartCards, s \in ShellCards, t \in TailCards}

(***************************************************************************)
(* SpecSim: main of similarity.py on a batch whose reference and targets   *)
(* are drawn from KeyFiles or fail to load.  The targets of the batch are  *)
(* taken one after the other; the batch has at least one (len(files) >= 2) *)
(* and may end after any of them.                                          *)
(***************************************************************************)
InitSim ==
    /\ pc = "discovered"
    /\ lines = <<>>
    /\ data = NoResult
    /\ ExtractIdle
    /\ BatchIdle
    /\ SimIdle

\* DynaSimilarityEngine(reference_file): the reference loads
LoadReference ==
    /\ pc = "discovered"
    /\ \E keyfile \in KeyFiles :
          /\ ref_kf' = keyfile
          /\ ref_data' = canonicalize(keyfile)
          /\ ref_keywords' = DOMAIN canonicalize(keyfile)
    /\ pc' = "loaded"
    /\ UNCHANGED <<extract_vars, diff_vars, target, locals, score, error_logged>>

\* DynaSimilarityEngine(reference_file) raises and main returns
LoadReferenceFails ==
    /\ pc = "discovered"
    /\ pc' = "aborted"
    /\ UNCHANGED <<extract_vars, diff_vars, sim_vars>>

\* engine.calculate_score(target) on a target that parses
ScoreTarget ==
    /\ pc \in {"loaded", "scoring"}
    /\ \E keyfile \in KeyFiles :
          LET tgt_data == canonicalize(keyfile)
              found    == score_locals(ref_data, ref_keywords, tgt_data)
          IN  /\ target' = keyfile
              /\ locals' = found
              /\ score' = final_score(found.struct_score, found.param_score)
              /\ ref_data' = touched(ref_data,
                                     compared_keywords(ref_keywords, DOMAIN tgt_data))
    /\ error_logged' = (error_logged \/ locals.raised)
    /\ pc' = "scoring"
    /\ UNCHANGED <<extract_vars, diff_vars, ref_kf, ref_keywords>>

\* engine.calculate_score(target) on a target KeyFile cannot parse
ScoreTargetFails ==
    /\ pc \in {"loaded", "scoring"}
    /\ target' = <<>>
    /\ locals' = [NoLocals EXCEPT !.raised = TRUE]
    /\ score' = 0
    /\ error_logged' = (error_logged \/ locals.raised)
    /\ pc' = "scoring"
    /\ UNCHANGED <<extract_vars, diff_vars, ref_kf, ref_data, ref_keywords>>

\* the loop over files[1:] ends
FinishBatch ==
    /\ pc = "scoring"
    /\ pc' = "reported"
    /\ UNCHANGED <<extract_vars, diff_vars, sim_vars>>

NextSim ==
    \/ LoadReference
    \/ LoadReferenceFails
    \/ ScoreTarget
    \/ ScoreTargetFails
    \/ FinishBatch

SpecSim == InitSim /\ [][NextSim]_vars


(***************************************************************************)
(* Vocabulary of the properties of the similarity engine, read off the     *)
(* two KeyFile objects rather than off the dictionaries the engine builds. *)
(***************************************************************************)
\* the last call of calculate_score returned a score for a target that parsed
Scored == pc \in {"scoring", "reported"} /\ ~locals.raised

\* the keyword names present in a deck
KeywordNames(deck) == {deck[k].name : k \in DOMAIN deck}

\* the cards of a deck that define the record (kw, id)
CardsOf(deck, kw, id) ==
    {k \in DOMAIN deck : deck[k].name = kw /\ card_id_of(deck[k]) = id}

\* the ids present under a keyword of a deck
IdsUnder(deck, kw) == {card_id_of(deck[k]) : k \in {m \in DOMAIN deck : deck[m].name = kw}}

\* the card that stands for the record (kw, id) of a deck: the last one
RecordOf(deck, kw, id) == deck[Greatest(CardsOf(deck, kw, id))]

\* the fields present in a card
FieldsOf(card) == {card.field_names[m] : m \in DOMAIN card.field_names}

\* the (keyword, id, field) triples the parametric score is based on
Triples(reference, other) ==
    UNION {UNION {{<<kw, id, f>> : f \in FieldsOf(RecordOf(reference, kw, id))} :
                     id \in IdsUnder(reference, kw) \cap IdsUnder(other, kw)} :
              kw \in KeywordNames(reference) \cap KeywordNames(other)}

\* two normalized values are equal: the same number, or the same text
EqualValues(a, b) ==
    IF a.t = "str" \/ b.t = "str"
    THEN a.t = b.t /\ a.v = b.v
    ELSE (IF a.t = "int" THEN a.v * FloatUnit ELSE a.v)
             = (IF b.t = "int" THEN b.v * FloatUnit ELSE b.v)

\* two floats are within the relative tolerance 1e-5:
\* |a - b| <= 1e-5 * max(|a|, |b|)
WithinTolerance(a, b) ==
    /\ a.t = "float"
    /\ b.t = "float"
    /\ \E larger \in {abs(a.v), abs(b.v)} :
          /\ larger >= abs(a.v)
          /\ larger >= abs(b.v)
          /\ abs(a.v - b.v) <= larger \div 100000

\* the triple has a matching value in the other deck
Matches(reference, other, triple) ==
    LET mine   == RecordOf(reference, triple[1], triple[2])
        theirs == RecordOf(other, triple[1], triple[2])
    IN  /\ triple[3] \in FieldsOf(theirs)
        /\ LET a == normalize(mine.vals[triple[3]])
               b == normalize(theirs.vals[triple[3]])
           IN  EqualValues(a, b) \/ WithinTolerance(a, b)

\* the fraction n / d is the number p / q
IsFraction(fraction, p, q) == fraction.num * q = p * fraction.den

\* C16: for any deck D with at least one keyword, scoring D against itself
\* gives the combined score 100.0.
SelfSimilarity ==
    (Scored /\ target = ref_kf /\ ref_kf # <<>>) => score = 10000

\* the decks of the asymmetry scenario
D1 == <<cardPartAB>>

D2 == <<cardPartA>>

\* C17, as stated: with reference D1 (Part 1 has the fields a = 1, b = 2) and
\* target D2 (Part 1 has a = 1 alone) the parametric score is 1.0.
AsymmetryAsStated ==
    (Scored /\ ref_kf = D1 /\ target = D2) => IsFraction(locals.param_score, 1, 1)

\* C17, amended: with reference D1 and target D2 the parametric score is below
\* 1.0, the reference field b having no counterpart in the target; with
\* reference D2 and target D1 it is 1.0, every field of D2 matching in D1.
AsymmetryAsBuilt ==
    /\ (Scored /\ ref_kf = D1 /\ target = D2) =>
          /\ locals.param_score.num < locals.param_score.den
          /\ locals.total_fields - locals.matching_fields = 1
    /\ (Scored /\ ref_kf = D2 /\ target = D1) =>
          /\ locals.total_fields > 0
          /\ IsFraction(locals.param_score, 1, 1)

AsymmetryWitness ==
    /\ Scored
    /\ ref_kf = D1
    /\ target = D2
    /\ locals.matching_fields < locals.total_fields

ParametricBasis ==
    Scored =>
        LET triples  == Triples(ref_kf, target)
            matching == {tr \in triples : Matches(ref_kf, target, tr)}
        IN  /\ locals.total_fields = Cardinality(triples)
            /\ locals.matching_fields = Cardinality(matching)
            /\ IF triples = {}
               THEN IsFraction(locals.param_score, 0, 1)
               ELSE IsFraction(locals.param_score, Cardinality(matching),
                               Cardinality(triples))

\* a reference with an id the target lacks, a field the target lacks, a float
\* that matches only by the tolerance
ParametricBasisWitness ==
    /\ Scored
    /\ \E kw \in KeywordNames(ref_kf) \cap KeywordNames(target) :
          IdsUnder(ref_kf, kw) \ IdsUnder(target, kw) # {}
    /\ \E tr \in Triples(ref_kf, target) :
          tr[3] \notin FieldsOf(RecordOf(target, tr[1], tr[2]))
    /\ \E tr \in Triples(ref_kf, target) :
          /\ Matches(ref_kf, target, tr)
          /\ ~EqualValues(normalize(RecordOf(ref_kf, tr[1], tr[2]).vals[tr[3]]),
                          normalize(RecordOf(target, tr[1], tr[2]).vals[tr[3]]))

\* C20: a target that fails to parse scores 0.0, and the engine's reference
\* data is what the reference file gave, after a failed as after a successful
\* comparison, so that a target scored after a failure gets the score it gets
\* from a fresh engine.
FailureAbsorbed ==
    /\ (pc \in {"scoring", "reported"} /\ locals.raised) => score = 0
    /\ pc \in {"loaded", "scoring", "reported"} =>
          /\ ref_data = canonicalize(ref_kf)
          /\ ref_keywords = KeywordNames(ref_kf)
    /\ (Scored /\ error_logged) =>
          LET fresh == score_locals(canonicalize(ref_kf), KeywordNames(ref_kf),
                                    canonicalize(target))
          IN  /\ locals = fresh
              /\ score = final_score(fresh.struct_score, fresh.param_score)

\* a target scored after an earlier target of the batch failed
FailureAbsorbedWitness ==
    /\ Scored
    /\ error_logged
    /\ score > 0
    /\ KeywordNames(target) \ KeywordNames(ref_kf) # {}


\* C21: when the reference file parses to zero keywords the comparison is
\* stopped: no target is scored against that reference.
EmptyReferenceStops == ~(Scored /\ ref_kf = <<>>)


(***************************************************************************)
(***************************************************************************)
(* SpecBatch: main of s1.py on a directory of at most MaxBatch files; any  *)
(* of them may be unreadable, and saving an output may fail.               *)
(***************************************************************************)
(***************************************************************************)
MaxBatch == 2

\* a file with an odd Part, its shells and Nodes
batchOdd == chunkPart1 \o chunkShells \o chunkNodes

\* a file whose only Part has an even id
batchEven == chunkPart2 \o chunkSection2

BatchDecks == {batchOdd, batchEven, chunkNodes, <<>>, OddIdScenario}

BatchLetters == <<"a", "b", "c", "d", "e">>

batch_name(k) == <<BatchLetters[k], ".", "d", "y", "n">>

InitBatch ==
    /\ \E n \in 0..MaxBatch :
          /\ file_list = sorted({batch_name(k) : k \in 1..n})
          /\ input_dir \in [{batch_name(k) : k \in 1..n} -> BatchDecks]
    /\ next_file = 1
    /\ output_dir = <<>>
    /\ log = <<>>
    /\ input_file = <<>>
    /\ lines = <<>>
    /\ keep_pids = {}
    /\ keep_sec_ids = {}
    /\ keep_mat_ids = {}
    /\ keep_node_ids = {}
    /\ emitted = <<>>
    /\ out = <<>>
    /\ run = 1
    /\ pc = "started"
    /\ data = NoResult
    /\ BatchIdle
    /\ SimIdle

\* the output directory cannot be created, or the input directory is missing
MainAborts ==
    /\ pc = "started"
    /\ pc' = "aborted"
    /\ UNCHANGED <<extract_vars, diff_vars, sim_vars>>

\* if not files: return
NoFiles ==
    /\ pc = "started"
    /\ file_list = <<>>
    /\ pc' = "no files"
    /\ UNCHANGED <<extract_vars, diff_vars, sim_vars>>

\* for f in files: the call of extract_odd_components on the next file
PickFile ==
    /\ pc \in {"started", "unreadable", "skipped", "saved", "failed"}
    /\ next_file <= Len(file_list)
    /\ input_file' = file_list[next_file]
    /\ lines' = input_dir[file_list[next_file]]
    /\ keep_pids' = {}
    /\ keep_sec_ids' = {}
    /\ keep_mat_ids' = {}
    /\ keep_node_ids' = {}
    /\ emitted' = <<>>
    /\ out' = <<>>
    /\ next_file' = next_file + 1
    /\ pc' = "ready"
    /\ UNCHANGED <<run, file_list, input_dir, output_dir, log>>
    /\ UNCHANGED <<diff_vars, sim_vars>>

\* open(output_file, 'w') raises after PASS 2: main catches it (General
\* Failure) and goes on
ExtractRaises ==
    /\ pc = "ready"
    /\ LET found == pass1(lines)
       IN  /\ found.pids /= {}
           /\ keep_pids' = found.pids
           /\ keep_sec_ids' = found.sec_ids
           /\ keep_mat_ids' = found.mat_ids
    /\ keep_node_ids' = pass2_node_ids(lines, keep_pids')
    /\ log' = Append(log, [file |-> input_file, outcome |-> "failed"])
    /\ pc' = "failed"
    /\ UNCHANGED <<input_file, lines, emitted, out, run, file_list, next_file,
                   input_dir, output_dir>>
    /\ UNCHANGED <<diff_vars, sim_vars>>

\* variant: main ends after any call, whatever is left of files
Complete_after_any_file ==
    /\ pc \in {"unreadable", "skipped", "saved", "failed"}
    /\ pc' = "complete"
    /\ UNCHANGED <<extract_vars, diff_vars, sim_vars>>

\* the loop has gone through files: Extraction Complete.
Complete ==
    /\ pc \in {"unreadable", "skipped", "saved", "failed"}
    /\ next_file > Len(file_list)
    /\ pc' = "complete"
    /\ UNCHANGED <<extract_vars, diff_vars, sim_vars>>

NextBatch ==
    \/ MainAborts
    \/ NoFiles
    \/ PickFile
    \/ ReadFail
    \/ ExtractSkip
    \/ ExtractSave
    \/ ExtractRaises
    \/ Complete

SpecBatch == InitBatch /\ [][NextBatch]_vars

\* the *PART headers of a deck whose identifying line gives an odd Part id
OddParts(ls) ==
    {h \in Headers(ls, <<kwPART>>) : \E id \in PartField(ls, h, 1) : id % 2 = 1}

\* C22: a readable file in which no Part id is odd is skipped: its call ends
\* with the outcome "skipped", no output deck is saved for it, and the loop
\* goes on, so that when main ends every file of the batch has its outcome
\* and every file has either an output deck or an outcome that says why not.
EmptyResultSkipped ==
    /\ \A k \in DOMAIN log :
          /\ log[k].file = file_list[k]
          /\ (OddParts(input_dir[log[k].file]) = {} /\ log[k].outcome /= "unreadable")
                => /\ log[k].outcome = "skipped"
                   /\ out_name(log[k].file) \notin DOMAIN output_dir
          /\ log[k].outcome = "saved" <=> out_name(log[k].file) \in DOMAIN output_dir
    /\ pc = "skipped" => out = <<>>
    /\ pc = "complete" => Len(log) = Len(file_list)

\* the batch ended, its first file had no odd Part and its second was saved
EmptyResultSkippedWitness ==
    /\ pc = "complete"
    /\ Len(log) >= 2
    /\ log[1].outcome = "skipped"
    /\ log[2].outcome = "saved"
    /\ out_name(file_list[2]) \in DOMAIN output_dir


(***************************************************************************)
(* Vocabulary of the properties of the parallel parse.                     *)
(***************************************************************************)
\* parse_deep_search of each design deck of the model, computed once
ParsedDesign == [k \in DOMAIN DesignDecks |-> parse_deep_search(DesignDecks[k])]

\* parse_deep_search of the text of a file of the batch
ParseOfFile(fpath) ==
    ParsedDesign[CHOOSE k \in DOMAIN DesignDecks : DesignDecks[k] = deck_of[fpath]]

\* the changes main finds between two files when both are parsed, computed
\* from the text of the two files alone
ChangesBetween(file_a, file_b) ==
    changes_of(ParseOfFile(file_a), ParseOfFile(file_b))

\* C23: whatever the order in which the parse tasks complete, the mapping
\* holds under each path the parse of that very file (or its failure), no
\* pair is compared before every file has its entry, and the reports are
\* those of the pairs of parsed files that differ: a file whose parse failed
\* removes the pairs it is in and leaves the others as they are.
ParseOrderIrrelevant ==
    /\ \A fpath \in DOMAIN results :
          results[fpath].some => results[fpath] = ParseOfFile(fpath)
    /\ (compared > 0 \/ reports /= <<>> \/ (pc = "done" /\ Len(all_files) >= 2))
          => DOMAIN results = range(all_files)
    /\ \A pair \in Examined :
          LET mine == ReportsOf(pair[1], pair[2])
          IN  IF BothParsed(pair) /\ ChangesBetween(pair[1], pair[2]) /= {}
              THEN /\ Cardinality(mine) = 1
                   /\ \A k \in mine :
                         reports[k].changes = ChangesBetween(pair[1], pair[2])
              ELSE mine = {}
    /\ \A k \in DOMAIN reports :
          \E pair \in Examined : k \in ReportsOf(pair[1], pair[2])

\* three files, the parse of one failed, the pair of the other two reported
ParseOrderWitness ==
    /\ pc = "done"
    /\ Len(all_files) = 3
    /\ \E f \in range(all_files) :
          /\ ~results[f].some
          /\ \E pair \in Examined :
                /\ f \notin {pair[1], pair[2]}
                /\ ReportsOf(pair[1], pair[2]) /= {}


(***************************************************************************)
(* SpecBoth: extract_odd_components of s1.py and then parse_deep_search of *)
(* ss1.py on the same file, for the properties that relate what the two    *)
(* tools read from a *PART block.  A deck is a concatenation of at most    *)
(* MaxChunks of the chunks below.                                          *)
(***************************************************************************)
(***************************************************************************)
\* Part 1 on the line after the header
lookPart1 ==
    <<<<"*", "P", "A", "R", "T", NL>>,
      <<"1", " ", "1", " ", "1", NL>>>>

\* Part 3 under a title line
lookPartTitled ==
    <<<<"*", "P", "A", "R", "T", NL>>,
      <<"b", "r", "a", "c", "k", "e", "t", NL>>,
      <<"3", " ", "3", " ", "3", NL>>>>

\* Part 7 on the fourth line after the header
lookPartEdge ==
    <<<<"*", "P", "A", "R", "T", NL>>,
      <<"$", NL>>,
      <<"$", NL>>,
      <<"$", NL>>,
      <<"7", " ", "7", " ", "7", NL>>>>

\* Part 5 on the fifth line after the header
lookPartFar ==
    <<<<"*", "P", "A", "R", "T", NL>>,
      <<"$", NL>>,
      <<"$", NL>>,
      <<"$", NL>>,
      <<"$", NL>>,
      <<"5", " ", "5", " ", "5", NL>>>>

\* a header between *PART and the line 13 13 13
lookPartCut ==
    <<<<"*", "P", "A", "R", "T", NL>>,
      <<"$", " ", "c", NL>>,
      <<"*", "S", "E", "T", NL>>,
      <<"1", "3", " ", "1", "3", " ", "1", "3", NL>>>>

\* Part 9 with an inline comment in place of its Section and Material
lookPartInline ==
    <<<<"*", "P", "A", "R", "T", NL>>,
      <<"9", " ", "$", " ", "4", " ", "6", NL>>>>

\* shells of Parts 1 and 9 on Nodes 5 and 6, inline comments naming 8 and 5
lookShellInline ==
    <<<<"*", "E", "L", "E", "M", "E", "N", "T", "_", "S", "H", "E", "L",
        "L", NL>>,
      <<"1", " ", "1", " ", "5", " ", "$", " ", "8", NL>>,
      <<"2", " ", "9", " ", "6", " ", "$", " ", "5", NL>>>>

\* Nodes 5 and 8
lookNodes ==
    <<<<"*", "N", "O", "D", "E", NL>>,
      <<"5", " ", "0", NL>>,
      <<"8", " ", "0", NL>>>>

\* Part 11 with a Section token that is no number, followed by a card 2 2 2
lookPartBadSec ==
    <<<<"*", "P", "A", "R", "T", NL>>,
      <<"1", "1", " ", "x", " ", "1", NL>>,
      <<"2", " ", "2", " ", "2", NL>>>>

\* Part 15 with no Section token
lookPartNoSec ==
    <<<<"*", "P", "A", "R", "T", NL>>,
      <<"1", "5", NL>>>>

LookChunks ==
    <<lookPart1, lookPartTitled, lookPartEdge, lookPartFar, lookPartCut,
      lookPartInline, lookShellInline, lookNodes, lookPartBadSec,
      lookPartNoSec>>

RECURSIVE look_concat(_, _)
look_concat(choice, k) ==
    IF k > Len(choice) THEN <<>>
    ELSE LookChunks[choice[k]] \o look_concat(choice, k + 1)

IsLookDeck(ls) ==
    \E c \in UNION {[1..k -> DOMAIN LookChunks] : k \in 0..MaxChunks} :
        ls = look_concat(c, 1)

InitBoth ==
    /\ input_file = source_name
    /\ IsLookDeck(lines)
    /\ keep_pids = {}
    /\ keep_sec_ids = {}
    /\ keep_mat_ids = {}
    /\ keep_node_ids = {}
    /\ emitted = <<>>
    /\ out = <<>>
    /\ pc = "ready"
    /\ run = 1
    /\ file_list = <<>>
    /\ next_file = 1
    /\ input_dir = <<>>
    /\ output_dir = <<>>
    /\ log = <<>>
    /\ data = NoResult
    /\ BatchIdle
    /\ SimIdle

\* parse_deep_search on the file extract_odd_components was run on
ParseSame ==
    /\ pc \in {"skipped", "saved"}
    /\ data' = parse_deep_search(lines)
    /\ pc' = "parsed"
    /\ UNCHANGED <<extract_vars, all_files, deck_of, results, compared,
                   reports, diff_count, sim_vars>>

NextBoth == ExtractSkip \/ ExtractSave \/ ParseSame

SpecBoth == InitBoth /\ [][NextBoth]_vars

\* the lines the lookahead rule lets a *PART header reach that are no
\* comments: among the four lines after the header, before the next header
Reachable(ls, h) == {d \in Window(ls, h) : ~is_comment(ls[d])}

\* the *PART headers as extraction reads them
PartHeaders(ls) == Headers(ls, <<kwPART>>)

\* C24: in extraction and in the batch-diff parser alike, every Part comes
\* from a line that is one of the four lines after a *PART header, lies
\* before the next header and is no comment; so do the Section and Material
\* ids extraction keeps.  A *PART whose data line lies further down or after
\* the next header gives no Part.
LookaheadRule ==
    pc = "parsed" =>
        /\ \A p \in keep_pids :
              \E h \in PartHeaders(lines) : \E d \in Reachable(lines, h) :
                  p \in IdAt(lines[d], 1)
        /\ \A s \in keep_sec_ids :
              \E h \in PartHeaders(lines) : \E d \in Reachable(lines, h) :
                  s \in IdAt(lines[d], 2)
        /\ \A m \in keep_mat_ids :
              \E h \in PartHeaders(lines) : \E d \in Reachable(lines, h) :
                  m \in IdAt(lines[d], 3)
        /\ \A p \in DOMAIN data.parts :
              \E h \in DeepHeaders(lines, <<kwPART>>) : \E d \in Reachable(lines, h) :
                  /\ get_numeric_line(strip(lines[d])).some
                  /\ get_numeric_line(strip(lines[d])).pid = p
                  /\ get_numeric_line(strip(lines[d])).secid = data.parts[p].secid

\* a deck with a Part on the fourth line after its header, which both tools
\* find, and a *PART whose first data line is out of reach, which neither does
LookaheadWitness ==
    /\ pc = "parsed"
    /\ \E h \in PartHeaders(lines) : \E d \in Reachable(lines, h) :
          /\ d = h + 4
          /\ IdAt(lines[d], 1) \subseteq keep_pids
          /\ IdAt(lines[d], 1) \subseteq DOMAIN data.parts
          /\ IdAt(lines[d], 1) /= {}
    /\ \E h \in PartHeaders(lines) :
          /\ Reachable(lines, h) = {}
          /\ \E d \in DOMAIN lines :
                /\ d > h
                /\ ~is_comment(lines[d])
                /\ ~is_header(lines[d])
                /\ \E p \in IdAt(lines[d], 1) :
                      p % 2 = 1 /\ p \notin keep_pids /\ p \notin DOMAIN data.parts


\* a data line as an inline comment leaves it: the text before the first `$`
Uncommented(line) == IF \E k \in DOMAIN line : line[k] = "$" THEN before_dollar(line) ELSE line

\* the identifying lines of the *PART blocks of a deck, as extraction finds them
IdentifyingLines(ls) ==
    {IdentifyingLine(ls, h) : h \in PartHeaders(ls)} \ {0}

\* C25: in extraction, a token that follows a `$` on a Part or Element data
\* line is never taken for an id: every kept Section and Material id stands
\* before any `$` on the identifying line of a *PART block, and every kept
\* Node id before any `$` on a record of a standard element.
InlineCommentsCut ==
    pc \in {"saved", "skipped", "parsed"} =>
        /\ keep_sec_ids \subseteq
              UNION {IdAt(Uncommented(lines[d]), 2) : d \in IdentifyingLines(lines)}
        /\ keep_mat_ids \subseteq
              UNION {IdAt(Uncommented(lines[d]), 3) : d \in IdentifyingLines(lines)}
        /\ keep_node_ids \subseteq
              UNION {IdsFrom(Uncommented(lines[e]), 3) : e \in StandardRecords(lines)}

\* the first line a *PART header reaches whose first token, inline comment
\* removed, is an integer; 0 if none
IntegerIdLine(ls, h) ==
    LET S == {d \in Reachable(ls, h) :
                LET t == SelectSeq(Tokens(Uncommented(ls[d])), nonempty)
                IN  t /= <<>> /\ isdigit(t[1])}
    IN  IF S = {} THEN 0 ELSE Least(S)

\* C26: in the batch-diff map, a *PART whose data line starts with an integer
\* Part id is recorded under that id even when the Section id token is absent
\* or no number, unresolved (value 0.0) unless the file defines the Part
\* again.
MalformedSectionUnset ==
    pc = "parsed" =>
        \A h \in DeepHeaders(lines, <<kwPART>>) :
            IntegerIdLine(lines, h) /= 0 =>
                LET t == SelectSeq(Tokens(Uncommented(lines[IntegerIdLine(lines, h)])),
                                   nonempty)
                    p == int_of(t[1])
                IN  (Len(t) < 2 \/ ~isdigit(t[2])) =>
                        /\ p \in DOMAIN data.parts
                        /\ DefinitionsOfPart(lines, p) = {} => data.parts[p].value = 0

\* C29: for every *PART block, PASS 1 of extraction and parse_deep_search
\* derive the same Part id and the same Section id, or neither derives a
\* Part.
PartIdentityAgrees ==
    pc = "parsed" =>
        \A h \in PartHeaders(lines) :
            LET tokens == part_lookahead(lines, h, 1)
                pid    == token_int(tokens, 0)
                sid    == token_int(tokens, 1)
                found  == part_scan(lines, h, 1, Unknown)
            IN  /\ pid.some <=> found.some
                /\ found.some => (pid.val = found.pid /\ sid = Some(found.secid))


(***************************************************************************)
(* C27  The saved output, apart from the *KEYWORD line, the two provenance *)
(* comments and the *END line, is a sub-sequence of the source deck: each  *)
(* of its lines is a line of the source, no source line is used twice, and *)
(* the lines keep the order they had in the source.                        *)
(***************************************************************************)
\* sub is ls with some lines left out: each line of sub is matched with the
\* first line of ls, from position i on, that has the same text
RECURSIVE IsSubsequence(_, _, _)
IsSubsequence(sub, ls, i) ==
    IF sub = <<>> THEN TRUE
    ELSE IF i > Len(ls) THEN FALSE
    ELSE IF ls[i] = Head(sub) THEN IsSubsequence(Tail(sub), ls, i + 1)
    ELSE IsSubsequence(sub, ls, i + 1)

\* the lines of a saved file between its three opening lines and its *END line
Retained(file) ==
    IF file /= <<>> /\ file[Len(file)] = deck_close
    THEN SubSeq(file, 4, Len(file) - 1)
    ELSE SubSeq(file, 4, Len(file))

OutputIsSubsequence ==
    pc = "saved" =>
        /\ SubSeq(out, 1, 3) = header_lines(input_file)
        /\ IsSubsequence(Retained(out), lines, 1)

\* the same of the texts PASS 3 passes to out.write, in the order of the writes
WritesAreSubsequence ==
    pc = "saved" =>
        /\ \A k \in DOMAIN emitted : emitted[k] \in DOMAIN lines
        /\ \A k \in DOMAIN emitted : \A m \in DOMAIN emitted :
              k < m => emitted[k] < emitted[m]

\* the last line of the source has a line terminator
Terminated(ls) == ls = <<>> \/ ls[Len(ls)][Len(ls[Len(ls)])] = NL

OutputIsSubsequenceOfTerminated ==
    (pc = "saved" /\ Terminated(lines)) =>
        /\ SubSeq(out, 1, 3) = header_lines(input_file)
        /\ out[Len(out)] = deck_close
        /\ IsSubsequence(Retained(out), lines, 1)


(***************************************************************************)
(* C28  Ids the target lacks do not lower the score.  When the target has  *)
(* the keywords of the reference and no others, every id it has under a    *)
(* keyword is an id of the reference under that keyword whose reference    *)
(* fields all have a matching value in the target, and at least one id is  *)
(* shared, the combined score is 100.0, whether or not the reference has   *)
(* ids the target lacks.  An id is the value of an id field of a card; the *)
(* placeholder under which cards without an id field are filed is none.    *)
(***************************************************************************)
\* the ids both decks have under one of their keywords
SharedIds(reference, other) ==
    UNION {{<<kw, id>> : id \in {c \in IdsUnder(reference, kw) \cap IdsUnder(other, kw) :
                                    ~(c.t = "str" /\ c.v = Global.v)}} :
              kw \in KeywordNames(reference) \cap KeywordNames(other)}

\* every record of `other` is a record of the reference with matching values
AgreesWhereDefined(reference, other) ==
    /\ KeywordNames(other) = KeywordNames(reference)
    /\ \A kw \in KeywordNames(other) :
          IdsUnder(other, kw) \subseteq IdsUnder(reference, kw)
    /\ \A tr \in Triples(reference, other) : Matches(reference, other, tr)

\* the reference has an id under some keyword that `other` has not
LacksIds(reference, other) ==
    \E kw \in KeywordNames(reference) :
        IdsUnder(reference, kw) \ IdsUnder(other, kw) # {}

MissingIdsFree ==
    (Scored /\ AgreesWhereDefined(ref_kf, target) /\ SharedIds(ref_kf, target) # {})
        => score = 10000

\* a target scored 100.0 that lacks an id of the reference: the two decks
\* are not equal
MissingIdsWitness ==
    /\ Scored
    /\ AgreesWhereDefined(ref_kf, target)
    /\ SharedIds(ref_kf, target) # {}
    /\ LacksIds(ref_kf, target)
    /\ canonicalize(ref_kf) # canonicalize(target)
    /\ score = 10000


(***************************************************************************)
(* SpecOrder: one run of extract_odd_components on a deck of at most       *)
(* MaxChunks blocks: a Part defined in two ways, elements, masses, Nodes,  *)
(* a Section and a Material, in any order and number.                      *)
(***************************************************************************)
OrderChunks ==
    <<chunkPart1, chunkPart1Again, chunkShells, chunkMasses, chunkNodes,
      chunkSection2, chunkMat1>>

RECURSIVE order_concat(_, _)
order_concat(choice, k) ==
    IF k > Len(choice) THEN <<>>
    ELSE OrderChunks[choice[k]] \o order_concat(choice, k + 1)

IsOrderDeck(ls) ==
    \E c \in UNION {[1..k -> DOMAIN OrderChunks] : k \in 0..MaxChunks} :
        ls = order_concat(c, 1) \/ ls = unterminated(order_concat(c, 1))

InitOrder ==
    /\ input_file = source_name
    /\ IsOrderDeck(lines)
    /\ keep_pids = {}
    /\ keep_sec_ids = {}
    /\ keep_mat_ids = {}
    /\ keep_node_ids = {}
    /\ emitted = <<>>
    /\ out = <<>>
    /\ pc = "ready"
    /\ run = 1
    /\ file_list = <<>>
    /\ next_file = 1
    /\ input_dir = <<>>
    /\ output_dir = <<>>
    /\ log = <<>>
    /\ data = NoResult
    /\ BatchIdle
    /\ SimIdle

NextOrder == ReadFail \/ ExtractSkip \/ ExtractSave

SpecOrder == InitOrder /\ [][NextOrder]_vars

(***************************************************************************)
(* C30  Extraction does not depend on the order of the blocks.  A block is *)
(* a header line with the lines up to the next header.  For the deck of a  *)
(* run and every deck got from it by permuting its blocks, PASS 1 and      *)
(* PASS 2 give the same                                                    *)
(* keep_pids, keep_sec_ids, keep_mat_ids and keep_node_ids, and PASS 3     *)
(* writes the same lines of the source.                                    *)
(***************************************************************************)
\* the header lines of a deck in file order
BlockOrder(ls) == ascending(Headers(ls, <<Star>>))

\* the indices of the lines of the block whose header is line h
BlockLines(ls, h) == [k \in 1..(block_end(ls, h + 1) - h) |-> h + k - 1]

\* the lines before the first header, which belong to no block
Preamble(ls) == [k \in 1..(block_end(ls, 1) - 1) |-> k]

\* the indices of the lines of the deck with its blocks in the given order
RECURSIVE Arranged(_, _, _)
Arranged(ls, order, k) ==
    IF k > Len(order) THEN <<>>
    ELSE BlockLines(ls, order[k]) \o Arranged(ls, order, k + 1)

\* every order of the blocks
Rearrangements(order) ==
    {[k \in DOMAIN order |-> order[p[k]]] : p \in Permutations(DOMAIN order)}

\* the line with a terminator
terminate(line) ==
    IF line # <<>> /\ line[Len(line)] = NL THEN line ELSE line \o <<NL>>

\* the deck whose lines are those of ls in the order idx; as in ls, the last
\* line alone may lack its terminator
Rearranged(ls, idx) ==
    LET all == [k \in DOMAIN idx |-> terminate(ls[idx[k]])]
    IN  IF Terminated(ls) THEN all ELSE unterminated(all)

BlockOrderIrrelevant ==
    pc \in {"skipped", "saved"} =>
        \A order \in Rearrangements(BlockOrder(lines)) :
            LET idx   == Preamble(lines) \o Arranged(lines, order, 1)
                deck  == Rearranged(lines, idx)
                found == pass1(deck)
                nodes == pass2_node_ids(deck, found.pids)
                wrote == pass3(deck, 1, found.pids, found.sec_ids, found.mat_ids,
                               nodes)
            IN  /\ found.pids = keep_pids
                /\ found.sec_ids = keep_sec_ids
                /\ found.mat_ids = keep_mat_ids
                /\ pc = "saved" =>
                      /\ nodes = keep_node_ids
                      /\ {idx[wrote[k]] : k \in DOMAIN wrote} = Written

\* a saved deck in which a written Node record stands before the written
\* element that refers to it, and that element before the first *PART block
BlockOrderWitness ==
    /\ pc = "saved"
    /\ \E n \in Headers(lines, <<kwNODE>>) :
       \E e \in Headers(lines, element_keywords) :
          /\ n < e
          /\ \A p \in Headers(lines, <<kwPART>>) : e < p
          /\ \E d \in Body(lines, n) : ~is_comment(lines[d]) /\ d \in Written
          /\ \E d \in Body(lines, e) : ~is_comment(lines[d]) /\ d \in Written

====
